---- MODULE Spec2Model ----
(***************************************************************************)
(* Sentinel Stream: the fraud detector (consumer/fraud_detector.py), the   *)
(* stream engine of consumer/main.py and the stream engine of              *)
(* services/consumer/main.py.                                              *)
(*                                                                         *)
(* Units.  Scores and risks are integers in thousandths (0.85 = 850).      *)
(* Amounts are integers in cents.  amount_normalized is in millionths      *)
(* (amount / 10000 dollars = cents / 10^6).  A timestamp is a record       *)
(* [t, aware]: t in seconds since a Monday 00:00:00 UTC, aware = the       *)
(* datetime carries a timezone.  Text (card_id, transaction_id, location)  *)
(* is a sequence of one-character strings.                                 *)
(***************************************************************************)
EXTENDS Integers, Sequences, FiniteSets, TLC

VARIABLES
    variant,                 \* "consumer" (consumer/main.py) or "services" (services/consumer/main.py)
    settings,                \* configuration snapshot (config.py)
    model,                   \* FraudDetector.model: "none" | "proba" | "decision" | "binary"
    velocity_windows,        \* FraudDetector.velocity_windows: card_id -> TransactionWindow
    transactions_processed,  \* FraudDetector.transactions_processed
    alerts_generated,        \* FraudDetector.alerts_generated
    velocity_violations,     \* FraudDetector.velocity_violations
    last,                    \* outcome of the latest process_transaction call
    kafka_producer,          \* "none" | "up"
    kafka_consumer,          \* the loop's consumer object: "none" | "started" | "failed"
                             \* (start() raised) | "stopped" | "stop_failed" (stop() raised)
                             \* | "stop_cancelled" (stop() cut short by the cancellation)
    pc,                      \* position of the consumer task
    offset,                  \* number of messages the consumer has delivered
    cur,                     \* the message in flight and what process_message holds for it
    active_connections,      \* alert subscriber roster
    metrics,                 \* consumer/main.py metrics: latencies, dlq_count
    svc,                     \* services/consumer AppState: counters, and db, the pool with
                             \* the rows written through it
    dlq_topic,               \* records published on dead_letter_queue
    alerts_topic,            \* alerts published on fraud_alerts
    hist,                    \* per delivered message: what was done with it
    submitted,               \* the transactions handed to process_transaction, in order
    lifespan,                \* position of the application lifespan (startup .. shutdown)
    janitor,                 \* position of the cleanup_velocity_windows task
    now,                     \* wall clock (datetime.utcnow()), seconds on the scale of t
    scoring,                 \* one call of the scorer: its inputs and its result
    websocket_clients,       \* services/consumer AppState.websocket_clients (a list)
    ws_state,                \* each WebSocket connection: "new" | "open" | "dead" | "slow" | "closed"
    bcast,                   \* the broadcast in progress: its loop variables
    hub,                     \* per broadcast: roster at its start, who was sent, whose send raised
    model_loaded,            \* FraudDetector.model_loaded
    artifact,                \* the file at settings.model_path, as joblib.load finds it
    welcomed,                \* the connections that were sent the welcome frame
    lock                     \* FraudDetector._lock: its holder and the call it is in

vars == <<variant, settings, model, model_loaded, artifact, welcomed, lock,
          velocity_windows,
          transactions_processed,
          alerts_generated, velocity_violations, last, kafka_producer,
          kafka_consumer, pc, offset, cur, active_connections, metrics, svc,
          dlq_topic, alerts_topic, hist, submitted, lifespan, janitor, now,
          scoring, websocket_clients, ws_state, bcast, hub>>

detector_vars == <<velocity_windows, transactions_processed, alerts_generated,
                   velocity_violations, last, submitted>>

engine_vars == <<kafka_producer, kafka_consumer, pc, offset, cur, active_connections,
                 metrics, svc, dlq_topic, alerts_topic, hist>>

life_vars == <<lifespan, janitor, now>>

hub_vars == <<websocket_clients, ws_state, bcast, hub>>

aux_vars == <<lifespan, janitor, now, scoring, websocket_clients, ws_state, bcast, hub>>

(***************************************************************************)
(* Bounds of the model.                                                    *)
(***************************************************************************)
MaxMsgs == 2        \* messages the stream delivers (engine specification)
DetMaxTxns == 3     \* transactions submitted to the detector (detector specification)

(***************************************************************************)
(* Program constants.                                                      *)
(***************************************************************************)
VelocityFloor == 850            \* max(fraud_score, 0.85)
CriticalScore == 900
HighScore == 750
MediumScore == 500
BaseScore == 100                \* _rule_based_score: score = 0.1
MaxAmount == 100000000          \* 1_000_000 in cents
CardIdMaxLength == 50           \* services/consumer Transaction.card_id max_length
DlqTruncate == 1000             \* message[:1000]
ProcessingTruncate == 500       \* str(msg.value)[:500]
LatencyCap == 1000
LatencyKeep == 500

None == [none |-> TRUE]

Min(a, b) == IF a <= b THEN a ELSE b
Max(a, b) == IF a >= b THEN a ELSE b
Abs(a) == IF a >= 0 THEN a ELSE -a

(***************************************************************************)
(* Text helpers: str.lower, str.strip, substring test.                     *)
(***************************************************************************)
UpperToLower ==
    [c \in {"A","C","D","E","N","O","R","T","U","X","V","P"} |->
        CASE c = "A" -> "a" [] c = "C" -> "c" [] c = "D" -> "d" [] c = "E" -> "e"
          [] c = "N" -> "n" [] c = "O" -> "o" [] c = "R" -> "r" [] c = "T" -> "t"
          [] c = "U" -> "u" [] c = "X" -> "x" [] c = "V" -> "v" [] c = "P" -> "p"]

LowerChar(c) == IF c \in DOMAIN UpperToLower THEN UpperToLower[c] ELSE c
Lower(s) == [i \in 1..Len(s) |-> LowerChar(s[i])]

Contains(s, sub) ==
    \E i \in 0..(Len(s) - Len(sub)) : \A j \in 1..Len(sub) : s[i + j] = sub[j]

IsSpace(c) == c = " "
RECURSIVE LStrip(_)
LStrip(s) == IF s # <<>> /\ IsSpace(Head(s)) THEN LStrip(Tail(s)) ELSE s
RECURSIVE RStrip(_)
RStrip(s) ==
    IF s # <<>> /\ IsSpace(s[Len(s)]) THEN RStrip(SubSeq(s, 1, Len(s) - 1)) ELSE s
Strip(s) == RStrip(LStrip(s))

Repeat(c, n) == [i \in 1..n |-> c]

(***************************************************************************)
(* uuid.UUID(v): after dropping braces and hyphens, 32 hex digits.         *)
(***************************************************************************)
HexDigits == {"0","1","2","3","4","5","6","7","8","9","a","b","c","d","e","f"}
DropHyphens(s) == SelectSeq(s, LAMBDA c : c # "-" /\ c # "{" /\ c # "}")
IsUUID(v) ==
    LET hex == DropHyphens(v)
    IN  Len(hex) = 32 /\ \A i \in 1..32 : LowerChar(hex[i]) \in HexDigits

(***************************************************************************)
(* TransactionWindow (fraud_detector.py 22-56).  The two parallel lists    *)
(* timestamps / amounts are one sequence of entries [ts, amount].          *)
(***************************************************************************)
EmptyWindow == <<>>

add_transaction_buggy_sorted(window, timestamp, amount) ==
    SelectSeq(window, LAMBDA e : e.ts.t <= timestamp.t)
        \o <<[ts |-> timestamp, amount |-> amount]>>
        \o SelectSeq(window, LAMBDA e : e.ts.t > timestamp.t)

add_transaction(window, timestamp, amount) ==
    Append(window, [ts |-> timestamp, amount |-> amount])

\* ts >= cutoff raises TypeError when an offset-aware datetime meets a naive one.
cleanup_raises(window, current_time) ==
    \E i \in 1..Len(window) : window[i].ts.aware # current_time.aware

cleanup_buggy_keep_all(window, window_seconds, current_time) == window

cleanup_buggy_strict(window, window_seconds, current_time) ==
    LET cutoff == current_time.t - window_seconds
    IN  SelectSeq(window, LAMBDA e : e.ts.t > cutoff)

cleanup(window, window_seconds, current_time) ==
    LET cutoff == current_time.t - window_seconds
    IN  SelectSeq(window, LAMBDA e : e.ts.t >= cutoff)

get_count(window) == Len(window)

RECURSIVE SumAmounts(_)
SumAmounts(window) ==
    IF window = <<>> THEN 0 ELSE Head(window).amount + SumAmounts(Tail(window))

\* np.mean(amounts) as the exact fraction num / den.
get_mean_amount(window) ==
    IF window # <<>> THEN [num |-> SumAmounts(window), den |-> Len(window)]
    ELSE [num |-> 0, den |-> 1]

(***************************************************************************)
(* FraudDetector (fraud_detector.py 59-440).                               *)
(***************************************************************************)
WindowOf(windows, card_id) ==
    IF card_id \in DOMAIN windows THEN windows[card_id] ELSE EmptyWindow

PutWindow(windows, card_id, window) ==
    [c \in DOMAIN windows \cup {card_id} |-> IF c = card_id THEN window ELSE windows[c]]

velocity_exceeded_buggy_ge(count, s) == count >= s.velocity_threshold

\* line 239: triggered = count > self.settings.velocity_threshold
velocity_exceeded(count, s) == count > s.velocity_threshold

\* _check_velocity: self.velocity_windows[card_id] creates the window (defaultdict),
\* then cleanup, add_transaction, get_count.
check_velocity(windows, card_id, timestamp, amount, s) ==
    LET window == WindowOf(windows, card_id)
    IN  IF cleanup_raises(window, timestamp)
        THEN [raised |-> TRUE, windows |-> PutWindow(windows, card_id, window),
              triggered |-> FALSE, count |-> 0]
        ELSE LET cleaned == cleanup(window, s.velocity_window_seconds, timestamp)
                 added == add_transaction(cleaned, timestamp, amount)
                 count == get_count(added)
             IN  [raised |-> FALSE, windows |-> PutWindow(windows, card_id, added),
                  triggered |-> velocity_exceeded(count, s), count |-> count]

MERCHANT_CATEGORIES ==
    [m \in {"grocery", "gas_station", "restaurant", "online", "retail", "travel",
            "entertainment", "healthcare", "education", "utilities", "other"} |->
        CASE m = "grocery" -> 0 [] m = "gas_station" -> 1 [] m = "restaurant" -> 2
          [] m = "online" -> 3 [] m = "retail" -> 4 [] m = "travel" -> 5
          [] m = "entertainment" -> 6 [] m = "healthcare" -> 7 [] m = "education" -> 8
          [] m = "utilities" -> 9 [] m = "other" -> 10]

\* merchant_category.lower() on the merchant names the streams carry
MerchantLower(m) == IF m = "GROCERY" THEN "grocery" ELSE m

HIGH_RISK_LOCATIONS ==
    { <<"u","n","k","n","o","w","n">>, <<"v","p","n">>, <<"t","o","r">>,
      <<"p","r","o","x","y">> }

\* amount_deviation = abs(amount - mean) / mean as the exact fraction num / den,
\* capped by min(amount_deviation, 5.0)
Deviation(amount, mean) ==
    LET num == Abs(amount * mean.den - mean.num)
        den == mean.num
    IN  IF num > 5 * den THEN [num |-> 5, den |-> 1] ELSE [num |-> num, den |-> den]

engineer_features(windows, transaction, velocity_count) ==
    LET hour == (transaction.timestamp.t \div 3600) % 24
        day_of_week == (transaction.timestamp.t \div 86400) % 7
        category_lower == MerchantLower(transaction.merchant_category)
        location_lower == Lower(transaction.location)
        has_window == transaction.card_id \in DOMAIN windows
        window == WindowOf(windows, transaction.card_id)
        mean_amount == get_mean_amount(window)
    IN  [amount_normalized |-> Min(transaction.amount, 1000000),
         hour_of_day |-> hour,
         day_of_week |-> day_of_week,
         is_weekend |-> day_of_week >= 5,
         merchant_category_encoded |->
            IF category_lower \in DOMAIN MERCHANT_CATEGORIES
            THEN MERCHANT_CATEGORIES[category_lower] ELSE MERCHANT_CATEGORIES["other"],
         velocity_count |-> velocity_count,
         amount_deviation |->
            IF has_window /\ get_count(window) > 1 /\ mean_amount.num > 0
            THEN Deviation(transaction.amount, mean_amount)
            ELSE [num |-> 0, den |-> 1],
         location_risk |->
            IF \E risk \in HIGH_RISK_LOCATIONS : Contains(location_lower, risk)
            THEN 800 ELSE 200]

DeviationAbove2(f) == f.amount_deviation.num > 2 * f.amount_deviation.den

\* _rule_based_score; the elif branch (velocity_count > 5) is as in the source
rule_based_score(features) ==
    LET s0 == BaseScore
        s1 == IF features.velocity_count > 3 THEN s0 + 300
              ELSE IF features.velocity_count > 5 THEN s0 + 500 ELSE s0
        s2 == IF 2 <= features.hour_of_day /\ features.hour_of_day <= 5
              THEN s1 + 150 ELSE s1
        s3 == IF DeviationAbove2(features) THEN s2 + 200 ELSE s2
        s4 == s3 + (features.location_risk * 200) \div 1000
        s5 == IF features.amount_normalized > 500000 THEN s4 + 100 ELSE s4
    IN  Min(s5, 1000)

\* 1 / (1 + e^score) in thousandths, on the decision scores the streams carry
Sigmoid == [d \in {-3, -1, 0, 3} |->
              CASE d = -3 -> 953 [] d = -1 -> 731 [] d = 0 -> 500 [] d = 3 -> 47]

Clip_buggy_identity(x) == x

\* line 340: np.clip(fraud_score, 0, 1)
Clip(x) == Min(Max(x, 0), 1000)

\* _predict: outcome is what the loaded model does on this call:
\* [kind |-> "raise"] or [kind |-> "value", v |-> raw model output]
predict(features, mdl, outcome) ==
    IF mdl = "none" THEN rule_based_score(features)
    ELSE IF outcome.kind = "raise" THEN rule_based_score(features)
    ELSE IF mdl = "proba" THEN Clip(outcome.v)
    ELSE IF mdl = "decision" THEN Clip(Sigmoid[outcome.v])
    ELSE Clip(IF outcome.v = 1 THEN 900 ELSE 100)

\* _determine_fraud_reason: the clauses, in order; a clause is its text and
\* the number formatted into it (arg, a fraction; 0/1 when the text has none)
Clause(text, num, den) == [text |-> text, arg |-> [num |-> num, den |-> den]]

determine_fraud_reason_buggy_order(fraud_score, velocity_triggered, n, features) ==
    LET r1 == IF features.location_risk > 500
              THEN <<Clause("High-risk location detected", 0, 1)>> ELSE <<>>
        r2 == IF velocity_triggered
              THEN Append(r1, Clause("Velocity violation: {} txns in 60s",
                                     n, 1))
              ELSE r1
        r3 == IF DeviationAbove2(features)
              THEN Append(r2, Clause("Unusual amount (deviation: {:.1f}x)",
                                     features.amount_deviation.num,
                                     features.amount_deviation.den))
              ELSE r2
        r4 == IF 2 <= features.hour_of_day /\ features.hour_of_day <= 5
              THEN Append(r3, Clause("Suspicious transaction time", 0, 1)) ELSE r3
    IN  IF Len(r4) > 0 THEN r4
        ELSE IF fraud_score >= 800
        THEN <<Clause("ML model high confidence fraud prediction", 0, 1)>>
        ELSE <<Clause("Multiple risk factors detected", 0, 1)>>

determine_fraud_reason(fraud_score, velocity_triggered, velocity_count, features) ==
    LET r1 == IF velocity_triggered
              THEN <<Clause("Velocity violation: {} txns in 60s", velocity_count, 1)>>
              ELSE <<>>
        r2 == IF DeviationAbove2(features)
              THEN Append(r1, Clause("Unusual amount (deviation: {:.1f}x)",
                                     features.amount_deviation.num,
                                     features.amount_deviation.den))
              ELSE r1
        r3 == IF features.location_risk > 500
              THEN Append(r2, Clause("High-risk location detected", 0, 1)) ELSE r2
        r4 == IF 2 <= features.hour_of_day /\ features.hour_of_day <= 5
              THEN Append(r3, Clause("Suspicious transaction time", 0, 1)) ELSE r3
        r5 == IF fraud_score >= 800 /\ Len(r4) = 0
              THEN <<Clause("ML model high confidence fraud prediction", 0, 1)>> ELSE r4
    IN  IF Len(r5) > 0 THEN r5 ELSE <<Clause("Multiple risk factors detected", 0, 1)>>

get_risk_level_buggy_strict(score) ==
    IF score > CriticalScore THEN "CRITICAL"
    ELSE IF score >= HighScore THEN "HIGH"
    ELSE IF score >= MediumScore THEN "MEDIUM"
    ELSE "LOW"

get_risk_level(score) ==
    IF score >= CriticalScore THEN "CRITICAL"
    ELSE IF score >= HighScore THEN "HIGH"
    ELSE IF score >= MediumScore THEN "MEDIUM"
    ELSE "LOW"

should_alert_buggy_and(fraud_score, velocity_triggered, s) ==
    fraud_score >= s.fraud_score_threshold /\ velocity_triggered

\* line 173
should_alert(fraud_score, velocity_triggered, s) ==
    fraud_score >= s.fraud_score_threshold \/ velocity_triggered

final_score_buggy_no_floor(fraud_score, velocity_triggered) == fraud_score

\* line 186
final_score(fraud_score, velocity_triggered) ==
    IF velocity_triggered THEN Max(fraud_score, VelocityFloor) ELSE fraud_score

\* process_transaction after the observe step (lines 164-211): v is what
\* _check_velocity returned, features what _engineer_features built
score_and_alert(v, features, transaction, mdl, outcome, latency_ms, s) ==
    LET fraud_score == predict(features, mdl, outcome)
        fin == final_score(fraud_score, v.triggered)
    IN  [raised |-> FALSE, windows |-> v.windows, transaction |-> transaction,
         velocity_triggered |-> v.triggered, velocity_count |-> v.count,
         features |-> features,
         fraud_score |-> fraud_score,
         alert |->
            IF should_alert(fraud_score, v.triggered, s)
            THEN [transaction_id |-> transaction.transaction_id,
                  card_id |-> transaction.card_id,
                  amount |-> transaction.amount,
                  timestamp |-> transaction.timestamp,
                  location |-> transaction.location,
                  merchant_category |-> transaction.merchant_category,
                  fraud_score |-> fin,
                  fraud_reason |-> determine_fraud_reason(
                                      fraud_score, v.triggered, v.count, features),
                  risk_level |-> get_risk_level(fin),
                  velocity_triggered |-> v.triggered,
                  velocity_count |-> v.count,
                  latency_ms |-> latency_ms]
            ELSE None]

\* the call raised: nothing was computed
raised_call(windows, transaction) ==
    [raised |-> TRUE, windows |-> windows, transaction |-> transaction,
     velocity_triggered |-> FALSE, velocity_count |-> 0, features |-> None,
     fraud_score |-> 0, alert |-> None]

\* process_transaction: the whole critical section.  The result says whether
\* the call raised, the detector's windows afterwards, what was computed and
\* the alert returned (None when no alert).
process_transaction(windows, transaction, mdl, outcome, latency_ms, s) ==
    LET v == check_velocity(windows, transaction.card_id, transaction.timestamp,
                            transaction.amount, s)
    IN  IF v.raised
        THEN raised_call(v.windows, transaction)
        ELSE score_and_alert(v, engineer_features(v.windows, transaction, v.count),
                             transaction, mdl, outcome, latency_ms, s)

(***************************************************************************)
(* Configuration (config.py): the defaults of the two services, and a      *)
(* deployment that overrides VELOCITY_THRESHOLD through the environment.   *)
(***************************************************************************)
ConsumerSettings ==
    [velocity_window_seconds |-> 60, velocity_threshold |-> 5,
     fraud_score_threshold |-> 700]
ServicesSettings ==
    [velocity_window_seconds |-> 60, velocity_threshold |-> 3,
     fraud_score_threshold |-> 500]
EnvSettings ==
    [velocity_window_seconds |-> 60, velocity_threshold |-> 1,
     fraud_score_threshold |-> 700]

(***************************************************************************)
(* Inputs.                                                                 *)
(***************************************************************************)
UUID1 == Repeat("a", 32)
Card1 == <<"c", "1">>
Card2 == <<"c", "2">>
Austin == <<"A","u","s","t","i","n",","," ","T","X">>
TorExit == <<"T","O","R"," ","E","x","i","t"," ","N","o","d","e">>
T0 == 14 * 3600 + 30 * 60               \* Monday 14:30:00
T3 == 86400 + 3 * 3600 + 15 * 60        \* Tuesday 03:15:00

Txn(card_id, t, aware, amount, location) ==
    [transaction_id |-> UUID1, card_id |-> card_id, amount |-> amount,
     timestamp |-> [t |-> t, aware |-> aware], location |-> location,
     merchant_category |-> "grocery"]

DetTxns ==
    { Txn(Card1, t, TRUE, 3000, Austin) : t \in {T0, T0 + 60, T0 + 61} }
    \cup { Txn(Card2, T0, TRUE, 3000, Austin),
           Txn(Card1, T3, TRUE, 600000, TorExit) }

Models == {"none", "proba", "decision", "binary"}

Value(v) == [kind |-> "value", v |-> v]
Raise == [kind |-> "raise", v |-> 0]

\* what the loaded model can do on one call
Outcomes(mdl) ==
    CASE mdl = "none" -> {Value(0)}
      [] mdl = "proba" -> {Raise, Value(100), Value(700), Value(900)}
      [] mdl = "decision" -> {Raise, Value(-3), Value(0), Value(3)}
      [] mdl = "binary" -> {Value(0), Value(1)}

LatencySamples == {3}

(***************************************************************************)
(* State after construction.                                               *)
(***************************************************************************)
NoCall ==
    [calls |-> 0, raised |-> FALSE, transaction |-> None, velocity_triggered |-> FALSE,
     velocity_count |-> 0, features |-> None, fraud_score |-> 0, alert |-> None]

NoCur == [msg |-> None, transaction |-> None, alert |-> None, dlq |-> None]

InitDetector ==
    /\ velocity_windows = <<>>
    /\ transactions_processed = 0
    /\ alerts_generated = 0
    /\ velocity_violations = 0
    /\ last = NoCall
    /\ submitted = <<>>

\* state.db_pool after init_database, and the two tables the alert sink writes
\* errors counts the "Failed to save fraud alert" lines of the log
EmptyDb == [pool |-> "up", fraud_alerts |-> <<>>, cases |-> <<>>, errors |-> 0]

InitEngine ==
    /\ kafka_consumer = "none"
    /\ offset = 0
    /\ cur = NoCur
    /\ active_connections = {}
    /\ metrics = [latencies |-> <<>>, dlq_count |-> 0]
    /\ svc = [transactions_processed |-> 0, alerts_generated |-> 0,
              velocity_violations |-> 0, dlq_messages |-> 0, processing_times |-> <<>>,
              db |-> EmptyDb]
    /\ dlq_topic = <<>>
    /\ alerts_topic = <<>>
    /\ hist = <<>>

\* no broadcast in progress
NoBcast == [todo |-> {}, i |-> 0, disconnected |-> <<>>, waiting |-> ""]

\* FraudDetector._lock is free
NoLock == [holder |-> "free", at |-> "none", transaction |-> [none |-> TRUE],
           v |-> [none |-> TRUE], features |-> [none |-> TRUE]]

\* no scorer call made
NoScoring == [called |-> FALSE, mdl |-> "none", outcome |-> [kind |-> "value", v |-> 0],
              features |-> [none |-> TRUE], score |-> 0, final |-> 0,
              triggered |-> FALSE, reason |-> <<>>]

\* every WebSocket connection the model knows about
Connections == {"w1", "w2"}

\* the artifact a detector running with mdl was started on
ArtifactOf(mdl) == IF mdl = "none" THEN "missing" ELSE mdl

\* the detector has been initialized: initialize() has run on the artifact
Loaded ==
    /\ model_loaded = TRUE
    /\ artifact = ArtifactOf(model)

InitAux ==
    /\ Loaded
    /\ lifespan = "running"
    /\ janitor = IF variant = "consumer" THEN "sleep" ELSE "none"
    /\ now = 0
    /\ scoring = NoScoring
    /\ websocket_clients = <<>>
    /\ ws_state = [w \in Connections |-> "new"]
    /\ bcast = NoBcast
    /\ hub = <<>>
    /\ welcomed = {}
    /\ lock = NoLock

(***************************************************************************)
(* The detector's step: process_transaction under self._lock.  Neither     *)
(* _check_velocity nor _predict suspends, so the critical section is one   *)
(* step.                                                                   *)
(***************************************************************************)
\* what a finished call leaves: the store, the counters and what it returned
Return(r) ==
    /\ velocity_windows' = r.windows
    /\ transactions_processed' =
          IF r.raised THEN transactions_processed ELSE transactions_processed + 1
    /\ alerts_generated' =
          IF r.alert # None THEN alerts_generated + 1 ELSE alerts_generated
    /\ velocity_violations' =
          IF r.alert # None /\ r.velocity_triggered
          THEN velocity_violations + 1 ELSE velocity_violations
    /\ last' = [calls |-> last.calls + 1, raised |-> r.raised,
                transaction |-> r.transaction,
                velocity_triggered |-> r.velocity_triggered,
                velocity_count |-> r.velocity_count,
                features |-> r.features,
                fraud_score |-> r.fraud_score, alert |-> r.alert]
    /\ submitted' = Append(submitted, [offset |-> offset, transaction |-> r.transaction])

Detect(transaction, outcome, latency_ms) ==
    Return(process_transaction(velocity_windows, transaction, model, outcome,
                               latency_ms, settings))

(***************************************************************************)
(* Detector specification: any sequence of valid transactions submitted to *)
(* one FraudDetector.                                                      *)
(***************************************************************************)
InitDet ==
    /\ variant = "consumer"
    /\ settings \in {EnvSettings, ServicesSettings}
    /\ model \in Models
    /\ kafka_producer = "none"
    /\ pc = "detector"
    /\ InitDetector
    /\ InitEngine
    /\ InitAux

Submit ==
    /\ Len(submitted) < DetMaxTxns
    /\ \E transaction \in DetTxns, outcome \in Outcomes(model), lat \in LatencySamples :
          Detect(transaction, outcome, lat)
    /\ UNCHANGED aux_vars
    /\ UNCHANGED <<variant, settings, model, model_loaded, artifact, welcomed, lock>>
    /\ UNCHANGED engine_vars

NextDet == Submit

SpecDet == InitDet /\ [][NextDet]_vars

(***************************************************************************)
(* Default-deployment specification: one FraudDetector of consumer/ under  *)
(* its default settings with no model artifact (the fallback scorer),      *)
(* given night-time transactions of two cards.                             *)
(***************************************************************************)
NightTxns ==
    { Txn(c, t, TRUE, 3000, Austin) : c \in {Card1, Card2}, t \in {T3, T3 + 30} }
    \cup { Txn(Card1, T3, TRUE, 600000, TorExit) }

InitNight ==
    /\ variant = "consumer"
    /\ settings = ConsumerSettings
    /\ model = "none"
    /\ kafka_producer = "none"
    /\ pc = "detector"
    /\ InitDetector
    /\ InitEngine
    /\ InitAux

NightSubmit ==
    /\ Len(submitted) < DetMaxTxns
    /\ \E transaction \in NightTxns, outcome \in Outcomes(model), lat \in LatencySamples :
          Detect(transaction, outcome, lat)
    /\ UNCHANGED aux_vars
    /\ UNCHANGED <<variant, settings, model, model_loaded, artifact, welcomed, lock>>
    /\ UNCHANGED engine_vars

NextNight == NightSubmit

SpecNight == InitNight /\ [][NextNight]_vars

(***************************************************************************)
(* Messages of the transactions topic.  wire says what the bytes are:      *)
(* "nonutf8" (bytes that are not text), "notjson" (text json.loads         *)
(* rejects), "array" (JSON that is not an object), "object".  For an       *)
(* object, keys are the keys present and the other fields their values.    *)
(* size is the length of the raw message.                                  *)
(***************************************************************************)
TxnKeys == {"transaction_id", "card_id", "amount", "timestamp", "location",
            "merchant_category"}

Msg(wire, size, keys, transaction) ==
    [wire |-> wire, size |-> size, keys |-> keys, data |-> transaction]

Obj(transaction) == Msg("object", 200, TxnKeys, transaction)

BadId == <<"b", "a", "d">>
LongCard == Repeat("x", 51)

WithId(transaction, id) == [transaction EXCEPT !.transaction_id = id]

Clean == Txn(Card1, T0, TRUE, 3000, Austin)

Stream ==
    { Msg("nonutf8", 2, {}, Clean),
      Msg("notjson", 10, {}, Clean),
      Msg("array", 3, {}, Clean),
      Obj(WithId(Clean, BadId)),
      Obj(Txn(<<" ">>, T0, TRUE, -500, Austin)),
      Obj(Txn(LongCard, T0, TRUE, 3000, Austin)),
      Obj(Txn(Card1, T0, TRUE, 0, Austin)),
      Obj(Clean),
      Obj(Txn(Card1, T0 + 30, FALSE, 3000, Austin)),
      Obj(Txn(Card1, T3, TRUE, MaxAmount, TorExit)) }

\* what the loaded model does on one call, in the engine specification
EngineOutcomes == {Raise, Value(100), Value(900)}

\* the same for a model of another shape
EngineOutcomesOf(mdl) ==
    IF mdl \in {"none", "proba"} THEN EngineOutcomes ELSE Outcomes(mdl)

(***************************************************************************)
(* Building a Transaction from the parsed data: the two schemas.           *)
(***************************************************************************)
\* consumer/models.py validate_card_id: not v or not v.strip() raises
validate_card_id(v) == Len(v) > 0 /\ Len(Strip(v)) > 0

\* consumer/models.py Transaction: amount ge=0 and <= 1_000_000, transaction_id
\* a UUID, card_id not blank
ConsumerValid(m) ==
    /\ m.wire = "object"
    /\ TxnKeys \subseteq m.keys
    /\ IsUUID(m.data.transaction_id)
    /\ validate_card_id(m.data.card_id)
    /\ m.data.amount >= 0
    /\ m.data.amount <= MaxAmount

\* the validated model: card_id stripped (amounts of the streams carry whole
\* cents, which round(v, 2) keeps)
ConsumerTransaction(m) == [m.data EXCEPT !.card_id = Strip(m.data.card_id)]

\* services/consumer/models.py Transaction: card_id 1..50 characters, amount > 0,
\* location and merchant_category not empty; transaction_id any string
ServicesValid(m) ==
    /\ m.wire = "object"
    /\ TxnKeys \subseteq m.keys
    /\ Len(m.data.card_id) >= 1
    /\ Len(m.data.card_id) <= CardIdMaxLength
    /\ m.data.amount > 0
    /\ Len(m.data.location) >= 1
    /\ m.data.merchant_category # ""

ServicesTransaction(m) == m.data

(***************************************************************************)
(* Ghost record of what was done with each delivered message.              *)
(***************************************************************************)
NewHist(m) ==
    [msg |-> m, detector_calls |-> 0, dlq_attempts |-> 0, dlq_records |-> 0,
     alerts_published |-> 0, frames |-> 0, done |-> FALSE, raised |-> FALSE,
     scorer_failed |-> FALSE, alert |-> FALSE, publish_attempts |-> 0,
     broadcasts |-> 0, sink_attempts |-> 0]

Note(field, n) == [hist EXCEPT ![offset][field] = @ + n]
Finished(h) == [h EXCEPT ![offset].done = TRUE]
Bump(h, field) == [h EXCEPT ![offset][field] = @ + 1]

(***************************************************************************)
(* Subscribers (WebSocketManager; services websocket_alerts).              *)
(***************************************************************************)
Clients == {"w1"}

WsConnect(w) ==
    /\ w \notin active_connections
    /\ active_connections' = active_connections \cup {w}
    /\ UNCHANGED aux_vars
    /\ UNCHANGED <<variant, settings, model, model_loaded, artifact, welcomed, lock,
                   kafka_producer, kafka_consumer, pc,
                   offset, cur, metrics, svc, dlq_topic, alerts_topic, hist>>
    /\ UNCHANGED detector_vars

WsDisconnect(w) ==
    /\ w \in active_connections
    /\ active_connections' = active_connections \ {w}
    /\ UNCHANGED aux_vars
    /\ UNCHANGED <<variant, settings, model, model_loaded, artifact, welcomed, lock,
                   kafka_producer, kafka_consumer, pc,
                   offset, cur, metrics, svc, dlq_topic, alerts_topic, hist>>
    /\ UNCHANGED detector_vars

(***************************************************************************)
(* The consumer task: consume_transactions / kafka_consumer_loop.          *)
(***************************************************************************)
\* The task has no cancellation pending.  consumer/main.py's lifespan cancels
\* its tasks on shutdown (297-298), and a cancelled task's next step is the
\* CancelledError at the await it stands at; services/consumer/main.py's
\* lifespan (246-253) cancels nothing.
TaskRuns == lifespan = "running" \/ variant = "services"

\* AIOKafkaConsumer(...); await kafka_consumer.start()
CreateConsumer ==
    /\ pc = "create"
    /\ TaskRuns
    /\ \/ /\ kafka_consumer' = "started"
          /\ pc' = "iter"
       \/ /\ kafka_consumer' = "failed"
          /\ pc' = "sleep"
    /\ UNCHANGED aux_vars
    /\ UNCHANGED <<variant, settings, model, model_loaded, artifact, welcomed, lock,
                   kafka_producer, offset, cur,
                   active_connections, metrics, svc, dlq_topic, alerts_topic, hist>>
    /\ UNCHANGED detector_vars

\* async for msg in kafka_consumer: the next message is delivered
at_read_buggy_detached(p) ==
    p \in {"iter", "process", "dlq", "publish", "broadcast", "svc_save_txn",
           "svc_save_alert", "svc_broadcast", "svc_publish"}

\* async for msg in kafka_consumer: await process_message(msg) -- the loop is
\* back at the read only when process_message has returned
at_read(p) == p = "iter"

Consume(m) ==
    /\ at_read(pc)
    /\ TaskRuns
    /\ offset < MaxMsgs
    /\ cur' = [NoCur EXCEPT !.msg = m]
    /\ hist' = Append(hist, NewHist(m))
    /\ offset' = offset + 1
    /\ pc' = "process"
    /\ UNCHANGED aux_vars
    /\ UNCHANGED <<variant, settings, model, model_loaded, artifact, welcomed, lock,
                   kafka_producer, kafka_consumer,
                   active_connections, metrics, svc, dlq_topic, alerts_topic>>
    /\ UNCHANGED detector_vars

NextMessage == \E m \in Stream : Consume(m)

\* async for msg in kafka_consumer: the read raises
ConsumerError ==
    /\ pc = "iter"
    /\ TaskRuns
    /\ pc' = "sleep"
    /\ UNCHANGED aux_vars
    /\ UNCHANGED <<variant, settings, model, model_loaded, artifact, welcomed, lock,
                   kafka_producer, kafka_consumer, offset,
                   cur, active_connections, metrics, svc, dlq_topic, alerts_topic, hist>>
    /\ UNCHANGED detector_vars

\* async for msg in kafka_consumer: the iteration ends without an error (the
\* consumer was closed under the loop); no except clause runs, finally does
EndOfIteration ==
    /\ pc = "iter"
    /\ TaskRuns
    /\ pc' = "stop"
    /\ UNCHANGED aux_vars
    /\ UNCHANGED <<variant, settings, model, model_loaded, artifact, welcomed, lock,
                   kafka_producer, kafka_consumer, offset,
                   cur, active_connections, metrics, svc, dlq_topic, alerts_topic, hist>>
    /\ UNCHANGED detector_vars

after_except_buggy_no_finally == "create"

\* where the loop goes when an except clause is done: the finally clause
\* (consumer/main.py l.237-242, services/consumer/main.py l.182-184)
after_except == "stop"

\* except ...: await asyncio.sleep(5)
Wake ==
    /\ pc = "sleep"
    /\ TaskRuns
    /\ pc' = after_except
    /\ UNCHANGED aux_vars
    /\ UNCHANGED <<variant, settings, model, model_loaded, artifact, welcomed, lock,
                   kafka_producer, kafka_consumer, offset,
                   cur, active_connections, metrics, svc, dlq_topic, alerts_topic, hist>>
    /\ UNCHANGED detector_vars

\* finally: await kafka_consumer.stop().  consumer/main.py wraps the call in
\* try / except Exception: pass; services/consumer/main.py (182-184) does not, so
\* an error of stop() leaves the while True loop and ends the task.
on_stop_error == IF variant = "consumer" THEN "create" ELSE "ended"

\* finally: await kafka_consumer.stop(); then the next round of while True
StopConsumer ==
    /\ pc = "stop"
    /\ TaskRuns
    /\ \/ /\ kafka_consumer' = "stopped"
          /\ pc' = "create"
       \/ /\ kafka_consumer' = "stop_failed"
          /\ pc' = on_stop_error
    /\ UNCHANGED aux_vars
    /\ UNCHANGED <<variant, settings, model, model_loaded, artifact, welcomed, lock,
                   kafka_producer, offset, cur,
                   active_connections, metrics, svc, dlq_topic, alerts_topic, hist>>
    /\ UNCHANGED detector_vars

(***************************************************************************)
(* consumer/main.py: process_message, send_to_dead_letter_queue,           *)
(* publish_fraud_alert, WebSocketManager.broadcast.                        *)
(***************************************************************************)
\* message[:1000] of the decoded text
TextPrefix(m) == [repr |-> FALSE, len |-> Min(m.size, DlqTruncate)]
\* str(msg.value)[:500], then [:1000]: the repr b'...' of the bytes
ReprPrefix(m) ==
    [repr |-> TRUE, len |-> Min(Min(m.size + 3, ProcessingTruncate), DlqTruncate)]

DeadLetterMessage(original, error_type, off) ==
    [original_message |-> original, error_type |-> error_type,
     topic |-> "transactions", partition |-> 0, offset |-> off]

\* lines 161-169
json_error_record(m, off) == DeadLetterMessage(TextPrefix(m), "JSONDecodeError", off)
\* lines 174-182
validation_error_record(m, off) == DeadLetterMessage(TextPrefix(m), "ValidationError", off)

processing_error_record_buggy_kind(m, off) ==
    DeadLetterMessage(ReprPrefix(m), "Exception", off)

\* lines 196-204
processing_error_record(m, off) ==
    DeadLetterMessage(ReprPrefix(m), "ProcessingError", off)

on_dlq_publish_error_propagates == "sleep"

\* lines 129-130: send_to_dead_letter_queue logs a failed publish and returns,
\* process_message returns and the loop reads the next message
on_dlq_publish_error == "iter"

\* lines 148-149: publish_fraud_alert logs the failure and returns
on_alert_publish_error == "iter"

\* lines 189-191: the latency samples
track_latency(latencies, latency_ms) ==
    LET l == Append(latencies, latency_ms)
    IN  IF Len(l) > LatencyCap THEN SubSeq(l, Len(l) - LatencyKeep + 1, Len(l)) ELSE l

\* async with self._lock (fraud_detector.py l.155): entered for transaction
acquire(l, transaction) ==
    [l EXCEPT !.holder = "detector", !.at = "observe", !.transaction = transaction]

release_buggy_held(l) == l

\* leaving async with self._lock, by return or by exception
release(l) == NoLock

\* process_message up to its first suspension: decode, parse, validate,
\* process_transaction; sets up the DLQ record or the alert to publish
ProcessMessage ==
    /\ pc = "process"
    /\ TaskRuns
    /\ variant = "consumer"
    /\ LET m == cur.msg IN
       \/ /\ m.wire = "nonutf8"
          /\ cur' = [cur EXCEPT !.dlq = processing_error_record(m, offset)]
          /\ pc' = "dlq"
          /\ UNCHANGED <<metrics, hist, lock>>
          /\ UNCHANGED detector_vars
       \/ /\ m.wire = "notjson"
          /\ cur' = [cur EXCEPT !.dlq = json_error_record(m, offset)]
          /\ pc' = "dlq"
          /\ UNCHANGED <<metrics, hist, lock>>
          /\ UNCHANGED detector_vars
       \/ /\ m.wire \notin {"nonutf8", "notjson"}
          /\ ~ConsumerValid(m)
          /\ cur' = [cur EXCEPT !.dlq = validation_error_record(m, offset)]
          /\ pc' = "dlq"
          /\ UNCHANGED <<metrics, hist, lock>>
          /\ UNCHANGED detector_vars
       \/ /\ ConsumerValid(m)
          /\ lock.holder = "free"
          /\ lock' = release(acquire(lock, ConsumerTransaction(m)))
          /\ \E outcome \in EngineOutcomesOf(model), lat \in LatencySamples :
                /\ Detect(ConsumerTransaction(m), outcome, lat)
                /\ IF last'.raised
                   THEN /\ cur' = [cur EXCEPT !.transaction = ConsumerTransaction(m),
                                              !.dlq = processing_error_record(m, offset)]
                        /\ pc' = "dlq"
                        /\ metrics' = metrics
                        /\ hist' = [Note("detector_calls", 1) EXCEPT
                                       ![offset].raised = TRUE]
                   ELSE IF last'.alert # None
                   THEN /\ cur' = [cur EXCEPT !.transaction = ConsumerTransaction(m),
                                              !.alert = last'.alert]
                        /\ pc' = "publish"
                        /\ metrics' = [metrics EXCEPT !.latencies =
                                          track_latency(@, last'.alert.latency_ms)]
                        /\ hist' = [Note("detector_calls", 1) EXCEPT
                                       ![offset].alert = TRUE,
                                       ![offset].scorer_failed =
                                            (model # "none" /\ outcome.kind = "raise")]
                   ELSE /\ cur' = NoCur
                        /\ pc' = "iter"
                        /\ metrics' = metrics
                        /\ hist' = [Finished(Note("detector_calls", 1)) EXCEPT
                                       ![offset].scorer_failed =
                                            (model # "none" /\ outcome.kind = "raise")]
    /\ UNCHANGED aux_vars
    /\ UNCHANGED <<variant, settings, model, model_loaded, artifact, welcomed,
                   kafka_producer, kafka_consumer, offset,
                   active_connections, svc, dlq_topic, alerts_topic>>

\* send_to_dead_letter_queue
SendDLQ ==
    /\ pc = "dlq"
    /\ TaskRuns
    /\ \/ /\ kafka_producer = "none"
          /\ pc' = "iter"
          /\ hist' = Finished(hist)
          /\ UNCHANGED <<dlq_topic, metrics>>
       \/ /\ kafka_producer # "none"
          /\ dlq_topic' = Append(dlq_topic, cur.dlq)
          /\ metrics' = [metrics EXCEPT !.dlq_count = @ + 1]
          /\ pc' = "iter"
          /\ hist' = Finished([Note("dlq_attempts", 1) EXCEPT ![offset].dlq_records = @ + 1])
       \/ /\ kafka_producer # "none"
          /\ pc' = on_dlq_publish_error
          /\ hist' = IF on_dlq_publish_error = "iter"
                     THEN Finished(Note("dlq_attempts", 1))
                     ELSE Note("dlq_attempts", 1)
          /\ UNCHANGED <<dlq_topic, metrics>>
    /\ cur' = NoCur
    /\ UNCHANGED aux_vars
    /\ UNCHANGED <<variant, settings, model, model_loaded, artifact, welcomed, lock,
                   kafka_producer, kafka_consumer, offset,
                   active_connections, svc, alerts_topic>>
    /\ UNCHANGED detector_vars

\* publish_fraud_alert: kafka_producer.send_and_wait on fraud_alerts
PublishAlert ==
    /\ pc = "publish"
    /\ TaskRuns
    /\ \/ /\ kafka_producer = "none"
          /\ pc' = "broadcast"
          /\ UNCHANGED <<alerts_topic, hist, cur>>
       \/ /\ kafka_producer # "none"
          /\ alerts_topic' = Append(alerts_topic, [offset |-> offset, alert |-> cur.alert])
          /\ hist' = Bump(Note("alerts_published", 1), "publish_attempts")
          /\ pc' = "broadcast"
          /\ cur' = cur
       \/ /\ kafka_producer # "none"
          /\ pc' = on_alert_publish_error
          /\ hist' = Finished(Bump(hist, "publish_attempts"))
          /\ cur' = NoCur
          /\ UNCHANGED alerts_topic
    /\ UNCHANGED aux_vars
    /\ UNCHANGED <<variant, settings, model, model_loaded, artifact, welcomed, lock,
                   kafka_producer, kafka_consumer, offset,
                   active_connections, metrics, svc, dlq_topic>>
    /\ UNCHANGED detector_vars

\* the sends of one broadcast: the subscribers in failed raise and are
\* removed from the roster, the others are sent the frame
Deliver(failed) ==
    /\ active_connections' = active_connections \ failed
    /\ hist' = Finished(Bump(Note("frames", Cardinality(active_connections \ failed)),
                              "broadcasts"))

\* ws_manager.broadcast(alert.model_dump())
Broadcast ==
    /\ pc = "broadcast"
    /\ TaskRuns
    /\ \E failed \in SUBSET active_connections : Deliver(failed)
    /\ pc' = "iter"
    /\ cur' = NoCur
    /\ UNCHANGED aux_vars
    /\ UNCHANGED <<variant, settings, model, model_loaded, artifact, welcomed, lock,
                   kafka_producer, kafka_consumer, offset,
                   metrics, svc, dlq_topic, alerts_topic>>
    /\ UNCHANGED detector_vars

(***************************************************************************)
(* services/consumer/main.py: process_message.                             *)
(***************************************************************************)
CountDlq_buggy_processed ==
    svc' = [svc EXCEPT !.dlq_messages = @ + 1, !.transactions_processed = @ + 1]

\* state.dlq_messages += 1 (l.159 and l.162)
CountDlq == svc' = [svc EXCEPT !.dlq_messages = @ + 1]

\* lines 130-139 and the two except clauses
SvcProcessMessage ==
    /\ pc = "process"
    /\ variant = "services"
    /\ LET m == cur.msg IN
       \/ /\ ~ServicesValid(m)
          /\ CountDlq
          /\ cur' = NoCur
          /\ pc' = "iter"
          /\ hist' = Finished(hist)
          /\ UNCHANGED lock
          /\ UNCHANGED detector_vars
       \/ /\ ServicesValid(m)
          /\ lock.holder = "free"
          /\ lock' = release(acquire(lock, ServicesTransaction(m)))
          /\ \E outcome \in EngineOutcomesOf(model), lat \in LatencySamples :
                /\ Detect(ServicesTransaction(m), outcome, lat)
                /\ IF last'.raised
                   THEN /\ CountDlq
                        /\ cur' = NoCur
                        /\ pc' = "iter"
                        /\ hist' = [Finished(Note("detector_calls", 1)) EXCEPT
                                       ![offset].raised = TRUE]
                   ELSE /\ svc' = [svc EXCEPT
                                      !.processing_times = Append(@, lat),
                                      !.transactions_processed = @ + 1]
                        /\ cur' = [cur EXCEPT !.transaction = ServicesTransaction(m),
                                              !.alert = last'.alert]
                        /\ pc' = "svc_save_txn"
                        /\ hist' = [Note("detector_calls", 1) EXCEPT
                                       ![offset].alert = (last'.alert # None),
                                       ![offset].scorer_failed =
                                            (model # "none" /\ outcome.kind = "raise")]
    /\ UNCHANGED aux_vars
    /\ UNCHANGED <<variant, settings, model, model_loaded, artifact, welcomed,
                   kafka_producer, kafka_consumer, offset,
                   active_connections, metrics, dlq_topic, alerts_topic>>

\* await save_transaction_to_db(...); then lines 144-147
SvcSaveTransaction ==
    /\ pc = "svc_save_txn"
    /\ IF cur.alert # None
       THEN /\ svc' = [svc EXCEPT
                          !.alerts_generated = @ + 1,
                          !.velocity_violations =
                              IF cur.alert.velocity_triggered THEN @ + 1 ELSE @]
            /\ pc' = "svc_save_alert"
            /\ UNCHANGED <<cur, hist>>
       ELSE /\ pc' = "iter"
            /\ cur' = NoCur
            /\ hist' = Finished(hist)
            /\ svc' = svc
    /\ UNCHANGED aux_vars
    /\ UNCHANGED <<variant, settings, model, model_loaded, artifact, welcomed, lock,
                   kafka_producer, kafka_consumer, offset,
                   active_connections, metrics, dlq_topic, alerts_topic>>
    /\ UNCHANGED detector_vars

\* what the two INSERTs of one call do: both succeed, the first raises, the
\* second raises
SinkOutcomes == {"ok", "alert_fails", "case_fails"}

needs_case_buggy_medium(alert) == alert.risk_level \in {"MEDIUM", "HIGH", "CRITICAL"}

\* l.114: if alert.risk_level in ['HIGH', 'CRITICAL']
needs_case(alert) == alert.risk_level \in {"HIGH", "CRITICAL"}

\* l.122-123: priority and category of the case
case_row(alert_id, alert) ==
    [alert_id |-> alert_id, card_id |-> alert.card_id,
     priority |-> IF alert.risk_level = "CRITICAL" THEN "critical" ELSE "high",
     category |-> IF alert.velocity_triggered THEN "velocity_fraud"
                  ELSE "suspicious_activity",
     total_amount |-> alert.amount]

\* save_fraud_alert_to_db (l.98-126): the store afterwards and whether an
\* exception reached the caller.  INSERT ... RETURNING id gives the new row's
\* id; the connection runs no transaction, so the alert row stays when the
\* case's INSERT raises; except Exception logs and returns.
save_fraud_alert_to_db(db, alert, outcome) ==
    IF db.pool = "none" THEN [db |-> db, raised |-> FALSE]
    ELSE IF outcome = "alert_fails"
    THEN [db |-> [db EXCEPT !.errors = @ + 1], raised |-> FALSE]
    ELSE LET alert_id == Len(db.fraud_alerts) + 1
             with_alert == [db EXCEPT !.fraud_alerts =
                                Append(@, [id |-> alert_id, alert |-> alert])]
         IN  IF ~needs_case(alert) THEN [db |-> with_alert, raised |-> FALSE]
             ELSE IF outcome = "case_fails"
             THEN [db |-> [with_alert EXCEPT !.errors = @ + 1], raised |-> FALSE]
             ELSE [db |-> [with_alert EXCEPT
                              !.cases = Append(@, case_row(alert_id, alert))],
                   raised |-> FALSE]

\* await save_fraud_alert_to_db(alert); an exception of the call would be
\* process_message's except Exception (l.160-162)
SvcSaveAlert ==
    /\ pc = "svc_save_alert"
    /\ \E outcome \in SinkOutcomes :
          LET r == save_fraud_alert_to_db(svc.db, cur.alert, outcome)
          IN  IF r.raised
              THEN /\ svc' = [svc EXCEPT !.db = r.db, !.dlq_messages = @ + 1]
                   /\ pc' = "iter"
                   /\ cur' = NoCur
                   /\ hist' = Finished(Bump(hist, "sink_attempts"))
              ELSE /\ svc' = [svc EXCEPT !.db = r.db]
                   /\ pc' = "svc_broadcast"
                   /\ cur' = cur
                   /\ hist' = Bump(hist, "sink_attempts")
    /\ UNCHANGED aux_vars
    /\ UNCHANGED <<variant, settings, model, model_loaded, artifact, welcomed, lock,
                   kafka_producer, kafka_consumer, offset,
                   active_connections, metrics, dlq_topic, alerts_topic>>
    /\ UNCHANGED detector_vars

\* await broadcast_alert(alert)
SvcBroadcast ==
    /\ pc = "svc_broadcast"
    /\ \E failed \in SUBSET active_connections :
          /\ active_connections' = active_connections \ failed
          /\ hist' = Bump(Note("frames", Cardinality(active_connections \ failed)),
                          "broadcasts")
    /\ pc' = "svc_publish"
    /\ UNCHANGED aux_vars
    /\ UNCHANGED <<variant, settings, model, model_loaded, artifact, welcomed, lock,
                   kafka_producer, kafka_consumer, offset, cur,
                   metrics, svc, dlq_topic, alerts_topic>>
    /\ UNCHANGED detector_vars

\* lines 152-156, and except Exception when the publish raises
SvcPublish ==
    /\ pc = "svc_publish"
    /\ \/ /\ alerts_topic' = Append(alerts_topic, [offset |-> offset, alert |-> cur.alert])
          /\ hist' = Finished(Bump(Note("alerts_published", 1), "publish_attempts"))
          /\ svc' = svc
       \/ /\ CountDlq
          /\ hist' = Finished(Bump(hist, "publish_attempts"))
          /\ UNCHANGED alerts_topic
    /\ pc' = "iter"
    /\ cur' = NoCur
    /\ UNCHANGED aux_vars
    /\ UNCHANGED <<variant, settings, model, model_loaded, artifact, welcomed, lock,
                   kafka_producer, kafka_consumer, offset,
                   active_connections, metrics, dlq_topic>>
    /\ UNCHANGED detector_vars

(***************************************************************************)
(* Engine specification.                                                   *)
(***************************************************************************)
EngineModels == {"proba"}

Init ==
    /\ variant \in {"consumer", "services"}
    /\ settings = IF variant = "consumer" THEN ConsumerSettings ELSE ServicesSettings
    /\ model \in EngineModels
    /\ kafka_producer \in IF variant = "consumer" THEN {"none", "up"} ELSE {"up"}
    /\ pc = "create"
    /\ InitDetector
    /\ InitEngine
    /\ InitAux

Next ==
    \/ CreateConsumer
    \/ NextMessage
    \/ ConsumerError
    \/ EndOfIteration
    \/ Wake
    \/ StopConsumer
    \/ ProcessMessage
    \/ SendDLQ
    \/ PublishAlert
    \/ Broadcast
    \/ SvcProcessMessage
    \/ SvcSaveTransaction
    \/ SvcSaveAlert
    \/ SvcBroadcast
    \/ SvcPublish
    \/ \E w \in Clients : WsConnect(w)
    \/ \E w \in Clients : WsDisconnect(w)

Spec == Init /\ [][Next]_vars

(***************************************************************************)
(* The subscriber hub, send by send: WebSocketManager (consumer/main.py    *)
(* 50-95, 402-446) and websocket_alerts / broadcast_alert                  *)
(* (services/consumer/main.py 187-198, 332-342).  A connection is one      *)
(* WebSocket object: "new" before it connects, "open", then "dead" (the    *)
(* peer is gone: a send raises, the handler's receive raises               *)
(* WebSocketDisconnect) or "slow" (the peer reads nothing: a send does not *)
(* complete), and "closed" once its handler has returned.                  *)
(***************************************************************************)
MaxAlerts == 2      \* alerts broadcast (hub specification)

SeqToSet(list) == {list[i] : i \in 1..Len(list)}

Roster == IF variant = "consumer" THEN active_connections ELSE SeqToSet(websocket_clients)

\* WebSocketManager._lock is held from the first send of a broadcast to its end
LockHeld == variant = "consumer" /\ pc = "sending"

\* list.remove(x) for x in the list
ListRemove(list, x) ==
    LET at == CHOOSE i \in 1..Len(list) : list[i] = x /\ \A j \in 1..(i - 1) : list[j] # x
    IN  SubSeq(list, 1, at - 1) \o SubSeq(list, at + 1, Len(list))

\* for client in disconnected: state.websocket_clients.remove(client)
\* list.remove raises ValueError for a client that is no longer in the list
RECURSIVE RemoveEach(_, _)
RemoveEach(list, disconnected) ==
    IF disconnected = <<>> THEN [list |-> list, raised |-> FALSE]
    ELSE IF Head(disconnected) \notin SeqToSet(list) THEN [list |-> list, raised |-> TRUE]
    ELSE RemoveEach(ListRemove(list, Head(disconnected)), Tail(disconnected))

accept_frame == <<variant, settings, model, model_loaded, artifact, lock,
                  kafka_producer, kafka_consumer, offset, cur,
                  metrics, dlq_topic, alerts_topic, hist, lifespan, janitor, now, scoring>>

hub_frame == <<accept_frame, welcomed>>

\* connections dropped by a finished broadcast
Dropped == UNION {hub[k].failed : k \in {j \in 1..Len(hub) : hub[j].finished}}

\* websocket_alerts: accept, then add to the roster.  consumer/main.py
\* (402-416) then sends the welcome frame: connect takes the lock (a broadcast
\* holding it makes the handler wait before the add), adds, and the handler
\* goes on to send_json with no suspension between the add and the call that
\* hands the frame to the connection.  services/consumer/main.py (332-342)
\* goes from the append to its receive loop and sends no frame of its own.
Accept(w) ==
    /\ ws_state[w] = "new"
    /\ ~LockHeld
    /\ ws_state' = [ws_state EXCEPT ![w] = "open"]
    /\ IF variant = "consumer"
       THEN /\ active_connections' = active_connections \cup {w}
            /\ UNCHANGED websocket_clients
       ELSE /\ websocket_clients' = Append(websocket_clients, w)
            /\ UNCHANGED active_connections
    /\ welcomed' = IF variant = "consumer" THEN welcomed \cup {w} ELSE welcomed
    /\ UNCHANGED <<pc, svc, bcast, hub>>
    /\ UNCHANGED accept_frame
    /\ UNCHANGED detector_vars

\* the peer goes away
PeerCloses(w) ==
    /\ ws_state[w] = "open"
    /\ ws_state' = [ws_state EXCEPT ![w] = "dead"]
    /\ UNCHANGED <<pc, svc, bcast, hub, active_connections, websocket_clients>>
    /\ UNCHANGED hub_frame
    /\ UNCHANGED detector_vars

\* the peer stops reading
PeerStalls(w) ==
    /\ ws_state[w] = "open"
    /\ ws_state' = [ws_state EXCEPT ![w] = "slow"]
    /\ UNCHANGED <<pc, svc, bcast, hub, active_connections, websocket_clients>>
    /\ UNCHANGED hub_frame
    /\ UNCHANGED detector_vars

\* the handler's receive raises WebSocketDisconnect.  consumer: finally
\* ws_manager.disconnect (discard, under the lock); services: list.remove, which
\* raises ValueError in the handler when broadcast_alert removed the client first
HandlerExit(w) ==
    /\ ws_state[w] = "dead"
    /\ ~LockHeld
    /\ ws_state' = [ws_state EXCEPT ![w] = "closed"]
    /\ IF variant = "consumer"
       THEN /\ active_connections' = active_connections \ {w}
            /\ UNCHANGED websocket_clients
       ELSE /\ websocket_clients' = IF w \in SeqToSet(websocket_clients)
                                    THEN ListRemove(websocket_clients, w)
                                    ELSE websocket_clients
            /\ UNCHANGED active_connections
    /\ UNCHANGED <<pc, svc, bcast, hub>>
    /\ UNCHANGED hub_frame
    /\ UNCHANGED detector_vars

\* publish_skipped: broadcast_alert raised, so process_message went from l.150
\* to its except clause and never reached the publish of l.152-156
NewBroadcast == [roster0 |-> Roster, sent |-> {}, failed |-> {}, finished |-> FALSE,
                 late |-> FALSE, publish_skipped |-> FALSE]

\* the engine has an alert and calls the broadcast: consumer takes the lock
\* unless the roster is empty (71-72); services starts iterating the list
BeginBroadcast ==
    /\ pc = "iter"
    /\ Len(hub) < MaxAlerts
    /\ IF variant = "consumer"
       THEN IF active_connections = {}
            THEN /\ hub' = Append(hub, [NewBroadcast EXCEPT !.finished = TRUE])
                 /\ UNCHANGED <<pc, bcast>>
            ELSE /\ hub' = Append(hub, NewBroadcast)
                 /\ pc' = "sending"
                 /\ bcast' = [NoBcast EXCEPT !.todo = active_connections]
       ELSE /\ hub' = Append(hub, NewBroadcast)
            /\ pc' = "svc_sending"
            /\ bcast' = NoBcast
    /\ UNCHANGED <<svc, active_connections, websocket_clients, ws_state>>
    /\ UNCHANGED hub_frame
    /\ UNCHANGED detector_vars

\* one await websocket.send_text(...) on connection w, for the broadcast in
\* progress: it completes, raises, or (slow peer) does not return
send_text(w) ==
    LET k == Len(hub) IN
    IF ws_state[w] = "slow"
    THEN /\ bcast' = [bcast EXCEPT !.waiting = w, !.todo = @ \ {w}, !.i = @ + 1]
         /\ hub' = [hub EXCEPT ![k].late = @ \/ w \in Dropped]
    ELSE IF ws_state[w] = "open"
    THEN /\ bcast' = [bcast EXCEPT !.todo = @ \ {w}, !.i = @ + 1]
         /\ hub' = [hub EXCEPT ![k].sent = @ \cup {w}, ![k].late = @ \/ w \in Dropped]
    ELSE /\ bcast' = [bcast EXCEPT !.todo = @ \ {w}, !.i = @ + 1,
                                  !.disconnected = Append(@, w)]
         /\ hub' = [hub EXCEPT ![k].failed = @ \cup {w}, ![k].late = @ \/ w \in Dropped]

\* consumer broadcast, 78-84: the next connection of the set
SendText ==
    /\ pc = "sending"
    /\ bcast.waiting = ""
    /\ \E w \in bcast.todo : send_text(w)
    /\ UNCHANGED <<pc, svc, active_connections, websocket_clients, ws_state>>
    /\ UNCHANGED hub_frame
    /\ UNCHANGED detector_vars

\* consumer broadcast, 86-87: self.active_connections -= disconnected
EndBroadcast ==
    /\ pc = "sending"
    /\ bcast.waiting = ""
    /\ bcast.todo = {}
    /\ active_connections' = active_connections \ SeqToSet(bcast.disconnected)
    /\ hub' = [hub EXCEPT ![Len(hub)].finished = TRUE]
    /\ bcast' = NoBcast
    /\ pc' = "iter"
    /\ UNCHANGED <<svc, websocket_clients, ws_state>>
    /\ UNCHANGED hub_frame
    /\ UNCHANGED detector_vars

\* services broadcast_alert, 191-195: the list iterator's next element
SvcSendText ==
    /\ pc = "svc_sending"
    /\ bcast.waiting = ""
    /\ bcast.i < Len(websocket_clients)
    /\ send_text(websocket_clients[bcast.i + 1])
    /\ UNCHANGED <<pc, svc, active_connections, websocket_clients, ws_state>>
    /\ UNCHANGED hub_frame
    /\ UNCHANGED detector_vars

\* services broadcast_alert, 197-198: the iterator is exhausted, the
\* disconnected clients are removed; a ValueError of list.remove leaves
\* broadcast_alert and is counted by process_message (160-162)
SvcEndBroadcast ==
    /\ pc = "svc_sending"
    /\ bcast.waiting = ""
    /\ bcast.i >= Len(websocket_clients)
    /\ LET r == RemoveEach(websocket_clients, bcast.disconnected)
       IN  /\ websocket_clients' = r.list
           /\ svc' = IF r.raised THEN [svc EXCEPT !.dlq_messages = @ + 1] ELSE svc
           /\ hub' = [hub EXCEPT ![Len(hub)].finished = TRUE,
                                 ![Len(hub)].publish_skipped = r.raised]
    /\ bcast' = NoBcast
    /\ pc' = "iter"
    /\ UNCHANGED <<active_connections, ws_state>>
    /\ UNCHANGED hub_frame
    /\ UNCHANGED detector_vars

\* the steps of the consumer task in the hub specification
HubEngine ==
    \/ BeginBroadcast
    \/ SendText
    \/ EndBroadcast
    \/ SvcSendText
    \/ SvcEndBroadcast

InitHub ==
    /\ variant \in {"consumer", "services"}
    /\ settings = IF variant = "consumer" THEN ConsumerSettings ELSE ServicesSettings
    /\ model = "none"
    /\ kafka_producer = "up"
    /\ pc = "iter"
    /\ InitDetector
    /\ InitEngine
    /\ InitAux

NextHub ==
    \/ BeginBroadcast
    \/ SendText
    \/ EndBroadcast
    \/ SvcSendText
    \/ SvcEndBroadcast
    \/ \E w \in Connections : Accept(w)
    \/ \E w \in Connections : PeerCloses(w)
    \/ \E w \in Connections : PeerStalls(w)
    \/ \E w \in Connections : HandlerExit(w)

SpecHub == InitHub /\ [][NextHub]_vars

(***************************************************************************)
(* The alert sink on its own: process_message of services/consumer/main.py *)
(* hands save_fraud_alert_to_db one alert after another (l.144-148), with  *)
(* or without a pool.  The alerts cover every risk level, with and without *)
(* a velocity violation.                                                   *)
(***************************************************************************)
MaxSinkCalls == 2

SinkAlert(card_id, score, triggered) ==
    [transaction_id |-> UUID1, card_id |-> card_id, amount |-> 3000,
     timestamp |-> [t |-> T0, aware |-> TRUE], location |-> Austin,
     merchant_category |-> "grocery", fraud_score |-> score, fraud_reason |-> <<>>,
     risk_level |-> get_risk_level(score), velocity_triggered |-> triggered,
     velocity_count |-> IF triggered THEN 6 ELSE 1, latency_ms |-> 1]

SinkAlerts ==
    { SinkAlert(Card1, score, triggered) :
        score \in {MediumScore - 1, MediumScore, HighScore, CriticalScore},
        triggered \in BOOLEAN }

InitSink ==
    /\ variant = "services"
    /\ settings = ServicesSettings
    /\ model = "none"
    /\ kafka_producer = "up"
    /\ pc = "svc_broadcast"
    /\ InitDetector
    /\ kafka_consumer = "started"
    /\ offset = 1
    /\ cur = NoCur
    /\ active_connections = {}
    /\ metrics = [latencies |-> <<>>, dlq_count |-> 0]
    /\ \E pool \in {"up", "none"} :
          svc = [transactions_processed |-> 0, alerts_generated |-> 0,
                 velocity_violations |-> 0, dlq_messages |-> 0,
                 processing_times |-> <<>>, db |-> [EmptyDb EXCEPT !.pool = pool]]
    /\ dlq_topic = <<>>
    /\ alerts_topic = <<>>
    /\ hist = <<NewHist(None)>>
    /\ InitAux

\* the next alert reaches l.148
SinkSubmit ==
    /\ pc = "svc_broadcast"
    /\ hist[offset].sink_attempts < MaxSinkCalls
    /\ \E alert \in SinkAlerts : cur' = [cur EXCEPT !.alert = alert]
    /\ pc' = "svc_save_alert"
    /\ UNCHANGED aux_vars
    /\ UNCHANGED <<variant, settings, model, model_loaded, artifact, welcomed, lock,
                   kafka_producer, kafka_consumer, offset, hist,
                   active_connections, metrics, svc, dlq_topic, alerts_topic>>
    /\ UNCHANGED detector_vars

NextSink ==
    \/ SinkSubmit
    \/ SvcSaveAlert

SpecSink == InitSink /\ [][NextSink]_vars

(***************************************************************************)
(* The janitor: cleanup_velocity_windows (consumer/main.py 245-252) and    *)
(* FraudDetector.cleanup_old_windows (fraud_detector.py 422-439).          *)
(***************************************************************************)
MaxTicks == 7           \* janitor rounds (janitor specification)
StaleSeconds == 300     \* stale_threshold = timedelta(minutes=5)
JanitorPeriod == 60     \* await asyncio.sleep(60)

\* max(window.timestamps), in seconds
RECURSIVE Latest(_)
Latest(window) ==
    IF Len(window) = 1 THEN Head(window).ts.t
    ELSE Max(Head(window).ts.t, Latest(Tail(window)))

\* current_time = datetime.utcnow() is a naive datetime: max(window.timestamps)
\* over mixed datetimes and current_time - latest for an offset-aware latest
\* raise TypeError
cleanup_old_windows_raises(windows) ==
    \E c \in DOMAIN windows : \E i \in 1..Len(windows[c]) : windows[c][i].ts.aware

\* the cards cleanup_old_windows collects in cards_to_remove
cards_to_remove(windows, current_time) ==
    {c \in DOMAIN windows :
        /\ windows[c] # <<>>
        /\ current_time - Latest(windows[c]) > StaleSeconds}

\* cleanup_old_windows: the deletions come after the loop that collects the
\* cards, so a TypeError in the loop leaves every window in place
cleanup_old_windows(windows, current_time) ==
    IF cleanup_old_windows_raises(windows) THEN windows
    ELSE [c \in DOMAIN windows \ cards_to_remove(windows, current_time) |-> windows[c]]

\* one round of cleanup_velocity_windows: the sleep has elapsed, then
\* cleanup_old_windows under the detector's lock; an exception is logged (251-252)
lock_free_buggy_ignored(l) == TRUE

\* async with self._lock: the lock can be taken
lock_free(l) == l.holder = "free"

JanitorRun ==
    /\ janitor = "sleep"
    /\ lock_free(lock)
    /\ TaskRuns
    /\ now < T0 + JanitorPeriod * MaxTicks
    /\ now' = now + JanitorPeriod
    /\ velocity_windows' = cleanup_old_windows(velocity_windows, now')
    /\ UNCHANGED <<transactions_processed, alerts_generated, velocity_violations, last,
                   submitted>>
    /\ UNCHANGED <<variant, settings, model, model_loaded, artifact, welcomed, lock,
                   lifespan, janitor, scoring>>
    /\ UNCHANGED hub_vars
    /\ UNCHANGED engine_vars

\* transactions of the janitor specification: timestamps with a trailing Z
\* (offset-aware) and without (naive)
JanTxns ==
    { Txn(Card1, T0, TRUE, 3000, Austin),
      Txn(Card2, T0, FALSE, 3000, Austin),
      Txn(Card2, T0 + 120, FALSE, 3000, Austin) }

JanSubmit ==
    /\ Len(submitted) < DetMaxTxns
    /\ \E transaction \in JanTxns, lat \in LatencySamples :
          Detect(transaction, Value(0), lat)
    /\ UNCHANGED aux_vars
    /\ UNCHANGED <<variant, settings, model, model_loaded, artifact, welcomed, lock>>
    /\ UNCHANGED engine_vars

InitJan ==
    /\ variant = "consumer"
    /\ settings = ConsumerSettings
    /\ model = "none"
    /\ kafka_producer = "none"
    /\ pc = "detector"
    /\ InitDetector
    /\ InitEngine
    /\ Loaded
    /\ lifespan = "running"
    /\ janitor = "sleep"
    /\ now = T0
    /\ scoring = NoScoring
    /\ websocket_clients = <<>>
    /\ ws_state = [w \in Connections |-> "new"]
    /\ bcast = NoBcast
    /\ hub = <<>>
    /\ welcomed = {}
    /\ lock = NoLock

NextJan ==
    \/ JanSubmit
    \/ JanitorRun

SpecJan == InitJan /\ [][NextJan]_vars

(***************************************************************************)
(* Scorer specification: _predict (and through it _rule_based_score) and   *)
(* the alert's fraud_score of process_transaction (l.173-186) applied to   *)
(* one feature vector.  Init draws the feature vector, the loaded model    *)
(* and the settings; Score is the one call.                                *)
(***************************************************************************)
ScoreFeatures ==
    [amount_normalized : {400000, 500000, 600000},
     hour_of_day : {1, 2, 5, 6},
     day_of_week : {0},
     is_weekend : {FALSE},
     merchant_category_encoded : {1},
     velocity_count : {0, 3, 4, 5, 6, 7},
     amount_deviation : {[num |-> 0, den |-> 1], [num |-> 2, den |-> 1],
                         [num |-> 5, den |-> 2]},
     location_risk : {200, 800}]

\* what the loaded model can return on one call; np.clip is there for a
\* predict_proba whose output leaves [0, 1]
ScoreOutcomes(mdl) ==
    IF mdl = "proba" THEN Outcomes(mdl) \cup {Value(0 - 200), Value(1300)}
    ELSE Outcomes(mdl)

Score ==
    /\ pc = "scorer"
    /\ ~scoring.called
    /\ \E outcome \in ScoreOutcomes(model) :
          LET fraud_score == predict(scoring.features, model, outcome)
              triggered == velocity_exceeded(scoring.features.velocity_count, settings)
          IN  scoring' = [called |-> TRUE, mdl |-> model, outcome |-> outcome,
                          features |-> scoring.features, score |-> fraud_score,
                          final |-> final_score(fraud_score, triggered),
                          triggered |-> triggered,
                          reason |-> determine_fraud_reason(
                                         fraud_score, triggered,
                                         scoring.features.velocity_count,
                                         scoring.features)]
    /\ UNCHANGED <<lifespan, janitor, now, websocket_clients, ws_state, bcast, hub>>
    /\ UNCHANGED <<variant, settings, model, model_loaded, artifact, welcomed, lock>>
    /\ UNCHANGED detector_vars
    /\ UNCHANGED engine_vars

InitScore ==
    /\ variant = "consumer"
    /\ settings \in {ConsumerSettings, ServicesSettings}
    /\ model \in Models
    /\ kafka_producer = "none"
    /\ pc = "scorer"
    /\ InitDetector
    /\ InitEngine
    /\ Loaded
    /\ lifespan = "running"
    /\ janitor = "sleep"
    /\ now = 0
    /\ scoring \in {[NoScoring EXCEPT !.features = f] : f \in ScoreFeatures}
    /\ websocket_clients = <<>>
    /\ ws_state = [w \in Connections |-> "new"]
    /\ bcast = NoBcast
    /\ hub = <<>>
    /\ welcomed = {}
    /\ lock = NoLock

NextScore == Score

SpecScore == InitScore /\ [][NextScore]_vars

(***************************************************************************)
(* Shutdown: the part of lifespan after yield.  consumer/main.py (294-316) *)
(* cancels both tasks, awaits each, then stops the consumer and the        *)
(* producer; services/consumer/main.py (246-255) keeps no handle on its    *)
(* tasks and only stops and closes its clients.  The lifespan runs while   *)
(* the consumer task is suspended at an await, so never at pc = "process", *)
(* which stands for the code between the read and the first await.         *)
(***************************************************************************)
Suspended == pc \notin {"process", "ended"}

\* consumer_task.cancel(); cleanup_task.cancel(); then await consumer_task
Shutdown ==
    /\ variant = "consumer"
    /\ lifespan = "running"
    /\ pc # "process"
    /\ lifespan' = "await_consumer"
    /\ UNCHANGED <<janitor, now, scoring, websocket_clients, ws_state, bcast, hub>>
    /\ UNCHANGED <<variant, settings, model, model_loaded, artifact, welcomed, lock>>
    /\ UNCHANGED detector_vars
    /\ UNCHANGED engine_vars

\* the cancelled consumer task's next step: CancelledError at the await it
\* stands at.  Neither except KafkaError nor except Exception catches it; the
\* finally clause stops the consumer (an error of stop() is swallowed) and the
\* error leaves the task.  Inside the finally's own stop() the error leaves at
\* once.
ConsumerCancelled ==
    /\ variant = "consumer"
    /\ lifespan # "running"
    /\ Suspended
    /\ pc' = "ended"
    /\ IF pc = "stop" THEN kafka_consumer' = "stop_cancelled"
       ELSE kafka_consumer' \in {"stopped", "stop_failed"}
    /\ UNCHANGED aux_vars
    /\ UNCHANGED <<variant, settings, model, model_loaded, artifact, welcomed, lock,
                   kafka_producer, offset, cur,
                   active_connections, metrics, svc, dlq_topic, alerts_topic, hist>>
    /\ UNCHANGED detector_vars

\* the cancelled janitor's next step: CancelledError at asyncio.sleep(60)
JanitorCancelled ==
    /\ variant = "consumer"
    /\ lifespan # "running"
    /\ janitor = "sleep"
    /\ janitor' = "ended"
    /\ UNCHANGED <<lifespan, now, scoring, websocket_clients, ws_state, bcast, hub>>
    /\ UNCHANGED <<variant, settings, model, model_loaded, artifact, welcomed, lock>>
    /\ UNCHANGED detector_vars
    /\ UNCHANGED engine_vars

\* await consumer_task returns (CancelledError passed over)
AwaitConsumer ==
    /\ lifespan = "await_consumer"
    /\ pc = "ended"
    /\ lifespan' = "await_cleanup"
    /\ UNCHANGED <<janitor, now, scoring, websocket_clients, ws_state, bcast, hub>>
    /\ UNCHANGED <<variant, settings, model, model_loaded, artifact, welcomed, lock>>
    /\ UNCHANGED detector_vars
    /\ UNCHANGED engine_vars

\* what the lifespan's own stop() leaves of the consumer
stopped(consumer) == IF consumer = "none" THEN "none" ELSE "stopped"

\* await cleanup_task returns; kafka_consumer.stop(), kafka_producer.stop()
AwaitCleanup ==
    /\ lifespan = "await_cleanup"
    /\ janitor = "ended"
    /\ lifespan' = "complete"
    /\ kafka_consumer' = stopped(kafka_consumer)
    /\ UNCHANGED <<janitor, now, scoring, websocket_clients, ws_state, bcast, hub>>
    /\ UNCHANGED <<variant, settings, model, model_loaded, artifact, welcomed, lock,
                   kafka_producer, pc, offset, cur,
                   active_connections, metrics, svc, dlq_topic, alerts_topic, hist>>
    /\ UNCHANGED detector_vars

\* services/consumer/main.py 246-255: stop the consumer and the producer, close
\* the pool and the cache client; kafka_consumer_loop and broadcast_metrics,
\* started with a bare asyncio.create_task, are neither cancelled nor awaited
SvcShutdown ==
    /\ variant = "services"
    /\ lifespan = "running"
    /\ pc # "process"
    /\ lifespan' = "complete"
    /\ kafka_consumer' = stopped(kafka_consumer)
    /\ UNCHANGED <<janitor, now, scoring, websocket_clients, ws_state, bcast, hub>>
    /\ UNCHANGED <<variant, settings, model, model_loaded, artifact, welcomed, lock,
                   kafka_producer, pc, offset, cur,
                   active_connections, metrics, svc, dlq_topic, alerts_topic, hist>>
    /\ UNCHANGED detector_vars

\* the messages of the shutdown specification: one that is dead-lettered and
\* one that raises an alert
LifeStream ==
    { Msg("notjson", 10, {}, Clean),
      Obj(Txn(Card1, T3, TRUE, MaxAmount, TorExit)) }

LifeMessage == \E m \in LifeStream : Consume(m)

InitLife ==
    /\ variant \in {"consumer", "services"}
    /\ settings = IF variant = "consumer" THEN ConsumerSettings ELSE ServicesSettings
    /\ model \in EngineModels
    /\ kafka_producer = "up"
    /\ pc = "create"
    /\ InitDetector
    /\ InitEngine
    /\ Loaded
    /\ lifespan = "running"
    /\ janitor = IF variant = "consumer" THEN "sleep" ELSE "none"
    /\ now = T0 + JanitorPeriod * (MaxTicks - 1)
    /\ scoring = NoScoring
    /\ websocket_clients = <<>>
    /\ ws_state = [w \in Connections |-> "new"]
    /\ bcast = NoBcast
    /\ hub = <<>>
    /\ welcomed = {}
    /\ lock = NoLock

NextLife ==
    \/ CreateConsumer
    \/ LifeMessage
    \/ ConsumerError
    \/ EndOfIteration
    \/ Wake
    \/ StopConsumer
    \/ ProcessMessage
    \/ SendDLQ
    \/ PublishAlert
    \/ Broadcast
    \/ SvcProcessMessage
    \/ SvcSaveTransaction
    \/ SvcSaveAlert
    \/ SvcBroadcast
    \/ SvcPublish
    \/ JanitorRun
    \/ Shutdown
    \/ ConsumerCancelled
    \/ JanitorCancelled
    \/ AwaitConsumer
    \/ AwaitCleanup
    \/ SvcShutdown

SpecLife == InitLife /\ [][NextLife]_vars

(***************************************************************************)
(* Startup: FraudDetector.initialize (fraud_detector.py 96-140) and the    *)
(* part of consumer/main.py's lifespan before yield (264-292).             *)
(***************************************************************************)
\* what joblib.load finds at settings.model_path: no file, a file whose load
\* raises, a model object of one of the three shapes, a dictionary with a
\* model and a scaler, a dictionary without the key 'model'
Artifacts == {"missing", "corrupt", "proba", "decision", "binary", "dict_proba",
              "dict_no_model"}

initialize_fallback_model_buggy_unloaded == [model |-> "none", model_loaded |-> FALSE]

\* _initialize_fallback_model
initialize_fallback_model == [model |-> "none", model_loaded |-> TRUE]

\* _load_model: the detector's model and model_loaded afterwards
load_model(art) ==
    CASE art = "missing" -> initialize_fallback_model
      [] art = "corrupt" -> initialize_fallback_model
      [] art = "dict_no_model" -> [model |-> "none", model_loaded |-> TRUE]
      [] art = "dict_proba" -> [model |-> "proba", model_loaded |-> TRUE]
      [] OTHER -> [model |-> art, model_loaded |-> TRUE]

\* await fraud_detector.initialize()
Initialize ==
    /\ lifespan = "starting"
    /\ model' = load_model(artifact).model
    /\ model_loaded' = load_model(artifact).model_loaded
    /\ lifespan' = "producer"
    /\ UNCHANGED <<variant, settings, artifact, welcomed, lock>>
    /\ UNCHANGED <<janitor, now, scoring, websocket_clients, ws_state, bcast, hub>>
    /\ UNCHANGED detector_vars
    /\ UNCHANGED engine_vars

\* asyncio.sleep(5); the producer is started (a failure is logged and leaves
\* kafka_producer None); both tasks are created; yield
StartProducer ==
    /\ lifespan = "producer"
    /\ kafka_producer' \in {"up", "none"}
    /\ pc' = "create"
    /\ janitor' = "sleep"
    /\ lifespan' = "running"
    /\ UNCHANGED <<variant, settings, model, model_loaded, artifact, welcomed, lock>>
    /\ UNCHANGED <<now, scoring, websocket_clients, ws_state, bcast, hub>>
    /\ UNCHANGED <<kafka_consumer, offset, cur, active_connections, metrics, svc,
                   dlq_topic, alerts_topic, hist>>
    /\ UNCHANGED detector_vars

InitStart ==
    /\ variant = "consumer"
    /\ settings = ConsumerSettings
    /\ model = "none"
    /\ model_loaded = FALSE
    /\ artifact \in Artifacts
    /\ kafka_producer = "none"
    /\ pc = "not_started"
    /\ InitDetector
    /\ InitEngine
    /\ lifespan = "starting"
    /\ janitor = "not_started"
    /\ now = T0 + JanitorPeriod * (MaxTicks - 1)
    /\ scoring = NoScoring
    /\ websocket_clients = <<>>
    /\ ws_state = [w \in Connections |-> "new"]
    /\ bcast = NoBcast
    /\ hub = <<>>
    /\ welcomed = {}
    /\ lock = NoLock

NextStart ==
    \/ Initialize
    \/ StartProducer
    \/ CreateConsumer
    \/ LifeMessage
    \/ ConsumerError
    \/ EndOfIteration
    \/ Wake
    \/ StopConsumer
    \/ ProcessMessage
    \/ SendDLQ
    \/ PublishAlert
    \/ Broadcast
    \/ JanitorRun

SpecStart == InitStart /\ [][NextStart]_vars

(***************************************************************************)
(* The detector's lock.  process_transaction (155-211) and                 *)
(* cleanup_old_windows (422-439) both run inside async with self._lock.    *)
(* Here the critical section of process_transaction is taken apart at its  *)
(* awaits (await self._check_velocity, await self._predict), so that       *)
(* another task may run wherever the call could be suspended; the janitor  *)
(* has no await inside its critical section and stays one step.            *)
(***************************************************************************)
\* async with self._lock, entered by process_transaction
DetAcquire(transaction) ==
    /\ pc = "detector"
    /\ lock_free(lock)
    /\ Len(submitted) < DetMaxTxns
    /\ lock' = acquire(lock, transaction)
    /\ UNCHANGED <<variant, settings, model, model_loaded, artifact, welcomed>>
    /\ UNCHANGED aux_vars
    /\ UNCHANGED detector_vars
    /\ UNCHANGED engine_vars

\* await self._check_velocity(...); a raise leaves the critical section
DetObserve ==
    /\ lock.holder = "detector"
    /\ lock.at = "observe"
    /\ LET t == lock.transaction
           v == check_velocity(velocity_windows, t.card_id, t.timestamp, t.amount,
                               settings)
       IN  IF v.raised
           THEN /\ Return(raised_call(v.windows, t))
                /\ lock' = release(lock)
           ELSE /\ velocity_windows' = v.windows
                /\ lock' = [lock EXCEPT !.at = "features", !.v = v]
                /\ UNCHANGED <<transactions_processed, alerts_generated,
                               velocity_violations, last, submitted>>
    /\ UNCHANGED <<variant, settings, model, model_loaded, artifact, welcomed>>
    /\ UNCHANGED aux_vars
    /\ UNCHANGED engine_vars

\* self._engineer_features(transaction, velocity_count): reads the card's
\* window from the store
DetFeatures ==
    /\ lock.holder = "detector"
    /\ lock.at = "features"
    /\ lock' = [lock EXCEPT !.at = "predict",
                   !.features = engineer_features(velocity_windows, lock.transaction,
                                                  lock.v.count)]
    /\ UNCHANGED <<variant, settings, model, model_loaded, artifact, welcomed>>
    /\ UNCHANGED aux_vars
    /\ UNCHANGED detector_vars
    /\ UNCHANGED engine_vars

\* await self._predict(features), the counters, the alert; the lock is released
DetFinish ==
    /\ lock.holder = "detector"
    /\ lock.at = "predict"
    /\ \E outcome \in Outcomes(model), lat \in LatencySamples :
          Return(score_and_alert([lock.v EXCEPT !.windows = velocity_windows],
                                 lock.features, lock.transaction, model, outcome, lat,
                                 settings))
    /\ lock' = release(lock)
    /\ UNCHANGED <<variant, settings, model, model_loaded, artifact, welcomed>>
    /\ UNCHANGED aux_vars
    /\ UNCHANGED engine_vars

\* transactions of the lock specification: one whose card is stale as soon as
\* it is observed (an old event time), one that is fresh
LockTxns ==
    { Txn(Card1, T0, FALSE, 3000, Austin),
      Txn(Card2, T0 + 400, FALSE, 3000, Austin) }

LockSubmit == \E transaction \in LockTxns : DetAcquire(transaction)

InitLock ==
    /\ variant = "consumer"
    /\ settings = ConsumerSettings
    /\ model = "none"
    /\ kafka_producer = "none"
    /\ pc = "detector"
    /\ InitDetector
    /\ InitEngine
    /\ Loaded
    /\ lifespan = "running"
    /\ janitor = "sleep"
    /\ now = T0 + JanitorPeriod * (MaxTicks - 2)
    /\ scoring = NoScoring
    /\ websocket_clients = <<>>
    /\ ws_state = [w \in Connections |-> "new"]
    /\ bcast = NoBcast
    /\ hub = <<>>
    /\ welcomed = {}
    /\ lock = NoLock

NextLock ==
    \/ LockSubmit
    \/ DetObserve
    \/ DetFeatures
    \/ DetFinish
    \/ JanitorRun

SpecLock == InitLock /\ [][NextLock]_vars

(***************************************************************************)
(* Failures inside the critical section.  After _check_velocity has        *)
(* returned, process_transaction builds two validated objects:             *)
(* TransactionFeatures(...) in _engineer_features (l.291-300) and          *)
(* FraudAlert(...) (l.188-201, fraud_score ge=0 le=1); a ValidationError   *)
(* of either leaves async with self._lock, is logged and re-raised         *)
(* (l.213-215).  The counters are updated at l.170, l.175 and l.203.       *)
(***************************************************************************)
\* what a call that raised at `at` has done to the counters
counted_before(at, triggered) ==
    [transactions_processed |-> IF at = "alert" THEN 1 ELSE 0,
     velocity_violations |-> IF at = "alert" /\ triggered THEN 1 ELSE 0,
     alerts_generated |-> 0]

\* except Exception: raise, leaving async with self._lock
Raised(at, transaction, triggered) ==
    LET n == counted_before(at, triggered)
    IN  /\ transactions_processed' = transactions_processed + n.transactions_processed
        /\ velocity_violations' = velocity_violations + n.velocity_violations
        /\ alerts_generated' = alerts_generated + n.alerts_generated
        /\ last' = [raised_call(velocity_windows, transaction) EXCEPT
                       !.velocity_triggered = triggered]
                   @@ [calls |-> last.calls + 1]
        /\ submitted' = Append(submitted, [offset |-> offset, transaction |-> transaction])
        /\ UNCHANGED velocity_windows
        /\ lock' = release(lock)

\* self._engineer_features(transaction, velocity_count) raises
DetFeaturesRaise ==
    /\ lock.holder = "detector"
    /\ lock.at = "features"
    /\ Raised("features", lock.transaction, lock.v.triggered)
    /\ UNCHANGED <<variant, settings, model, model_loaded, artifact, welcomed>>
    /\ UNCHANGED aux_vars
    /\ UNCHANGED engine_vars

\* the score asks for an alert and FraudAlert(...) raises
DetAlertRaise ==
    /\ lock.holder = "detector"
    /\ lock.at = "predict"
    /\ \E outcome \in Outcomes(model) :
          should_alert(predict(lock.features, model, outcome), lock.v.triggered, settings)
    /\ Raised("alert", lock.transaction, lock.v.triggered)
    /\ UNCHANGED <<variant, settings, model, model_loaded, artifact, welcomed>>
    /\ UNCHANGED aux_vars
    /\ UNCHANGED engine_vars

FaultTxns ==
    { Txn(Card1, T0 + 400, FALSE, 3000, Austin),
      Txn(Card1, T0 + 410, FALSE, 3000, Austin),
      Txn(Card2, T0, FALSE, 3000, Austin) }

FaultSubmit == \E transaction \in FaultTxns : DetAcquire(transaction)

InitFault ==
    /\ variant = "consumer"
    /\ settings = EnvSettings
    /\ model = "proba"
    /\ kafka_producer = "none"
    /\ pc = "detector"
    /\ InitDetector
    /\ InitEngine
    /\ Loaded
    /\ lifespan = "running"
    /\ janitor = "sleep"
    /\ now = T0 + JanitorPeriod * (MaxTicks - 2)
    /\ scoring = NoScoring
    /\ websocket_clients = <<>>
    /\ ws_state = [w \in Connections |-> "new"]
    /\ bcast = NoBcast
    /\ hub = <<>>
    /\ welcomed = {}
    /\ lock = NoLock

NextFault ==
    \/ FaultSubmit
    \/ DetObserve
    \/ DetFeatures
    \/ DetFeaturesRaise
    \/ DetFinish
    \/ DetAlertRaise
    \/ JanitorRun

SpecFault == InitFault /\ [][NextFault]_vars

(***************************************************************************)
(* GET /health (consumer/main.py 341-363, services/consumer/main.py        *)
(* 274-287): a read of the state, so an operator and no action.  The       *)
(* global kafka_consumer is None only until the loop builds its first      *)
(* consumer object; a failed start, a failed read or stop() leave the      *)
(* object in place.                                                        *)
(***************************************************************************)
health_check ==
    IF variant = "consumer"
    THEN LET kafka_connected == kafka_consumer # "none" /\ kafka_producer # "none"
         IN  [status |-> IF ~model_loaded THEN "unhealthy"
                         ELSE IF ~kafka_connected THEN "degraded" ELSE "healthy",
              kafka_connected |-> kafka_connected,
              model_loaded |-> model_loaded]
    ELSE [status |-> "healthy",
          kafka_connected |-> kafka_consumer # "none",
          model_loaded |-> model_loaded]

(***************************************************************************)
(* Properties of the detector (checked under SpecDet).                     *)
(***************************************************************************)
Returned == last.calls > 0 /\ ~last.raised
Emitted == Returned /\ last.alert # None
LastCard == last.transaction.card_id
LastWindow == velocity_windows[LastCard]

\* C1: process_transaction returns an alert if and only if the computed score
\* is >= fraud_score_threshold or velocity_triggered is true; otherwise it
\* returns no alert -- for every transaction, after any earlier transactions.
C1_AlertIff ==
    Returned =>
        ((last.alert # None) <=>
            (last.fraud_score >= settings.fraud_score_threshold
                \/ last.velocity_triggered))

\* C1 witness: after earlier transactions, an alert is returned on the score
\* alone (the velocity check did not trigger).
C1_Witness ==
    /\ Emitted
    /\ last.calls >= 2
    /\ ~last.velocity_triggered
    /\ last.fraud_score >= settings.fraud_score_threshold

\* C2: velocity_triggered is true exactly when the card's window size after
\* inserting the current transaction is strictly greater than
\* velocity_threshold, and the alert's velocity_count is that window size.
C2_VelocityTrigger ==
    Returned =>
        /\ last.velocity_triggered <=> (Len(LastWindow) > settings.velocity_threshold)
        /\ last.velocity_count = Len(LastWindow)
        /\ (last.alert # None =>
                /\ last.alert.velocity_count = Len(LastWindow)
                /\ last.alert.velocity_triggered = last.velocity_triggered)

\* C2 witness: the window of the card holds exactly threshold + 1 entries after
\* the insert and the alert reports that count.
C2_Witness ==
    /\ Emitted
    /\ last.velocity_triggered
    /\ Len(LastWindow) = settings.velocity_threshold + 1
    /\ last.alert.velocity_count = settings.velocity_threshold + 1

CardTimes(card_id) ==
    LET of_card == SelectSeq(submitted, LAMBDA e : e.transaction.card_id = card_id)
    IN  [i \in 1..Len(of_card) |-> of_card[i].transaction.timestamp.t]

Monotonic(ts) == \A i \in 1..(Len(ts) - 1) : ts[i] <= ts[i + 1]

\* C3: window time bound -- for a card whose transactions had non-decreasing
\* timestamps, right after the observe step for timestamp ts_n every retained
\* entry has entry_ts >= ts_n - W.
C3_WindowTimeBound ==
    (Returned /\ Monotonic(CardTimes(LastCard))) =>
        \A i \in 1..Len(LastWindow) :
            LastWindow[i].ts.t >= last.transaction.timestamp.t
                                    - settings.velocity_window_seconds

\* C3 witness: a monotonic sequence for one card in which the observe step
\* evicted an earlier entry and retained another one.
C3_Witness ==
    /\ Returned
    /\ Monotonic(CardTimes(LastCard))
    /\ Len(CardTimes(LastCard)) = 3
    /\ Len(LastWindow) = 2

\* C4: alert floor under velocity -- an emitted alert with velocity_triggered
\* carries fraud_score = max(score, 0.85), hence >= 0.85; an emitted alert
\* without velocity_triggered carries the scorer's score unchanged.
C4_AlertFloor ==
    Emitted =>
        /\ last.alert.velocity_triggered =>
              /\ last.alert.fraud_score = Max(last.fraud_score, 850)
              /\ last.alert.fraud_score >= 850
        /\ ~last.alert.velocity_triggered =>
              last.alert.fraud_score = last.fraud_score

\* C4 witness: a velocity-triggered alert whose scorer score was below 0.85
\* and whose fraud_score is 0.85.
C4_Witness ==
    /\ Emitted
    /\ last.alert.velocity_triggered
    /\ last.fraud_score < 850
    /\ last.alert.fraud_score = 850

\* C5: risk ladder -- risk_level of an emitted alert is derived from the final
\* (floored) score: CRITICAL iff >= 0.9, HIGH iff in [0.75, 0.9), MEDIUM iff
\* in [0.5, 0.75), LOW otherwise; every velocity-triggered alert is HIGH or
\* CRITICAL.
C5_RiskLadder ==
    Emitted =>
        LET fs == last.alert.fraud_score
            rl == last.alert.risk_level
        IN  /\ (rl = "CRITICAL") <=> (fs >= 900)
            /\ (rl = "HIGH") <=> (750 <= fs /\ fs < 900)
            /\ (rl = "MEDIUM") <=> (500 <= fs /\ fs < 750)
            /\ (rl = "LOW") <=> (fs < 500)
            /\ last.alert.velocity_triggered => rl \in {"HIGH", "CRITICAL"}

\* C5 witness: a velocity-triggered alert whose raw score would be LOW is
\* classified HIGH from the floored score.
C5_Witness ==
    /\ Emitted
    /\ last.alert.velocity_triggered
    /\ last.fraud_score < 500
    /\ last.alert.risk_level = "HIGH"

(***************************************************************************)
(* Properties of the stream engine (checked under Spec).                   *)
(***************************************************************************)
Delivered == 1..Len(hist)

\* the schema the running service validates against
Valid(m) == IF variant = "consumer" THEN ConsumerValid(m) ELSE ServicesValid(m)

RecordsOf(k) == SelectSeq(dlq_topic, LAMBDA r : r.offset = k)

\* C6: DLQ coverage -- for every consumed message that is not a valid
\* Transaction JSON, process_message produces exactly one record on the
\* dead-letter topic and zero alerts (nothing published, nothing broadcast).
C6_DlqCoverage ==
    \A k \in Delivered :
        (hist[k].done /\ ~Valid(hist[k].msg)) =>
            /\ hist[k].dlq_records = 1
            /\ Len(RecordsOf(k)) = 1
            /\ hist[k].alerts_published = 0
            /\ hist[k].frames = 0

\* the labels under which a dead-letter record counts as a DecodeError
DecodeErrorKinds == {"DecodeError", "JSONDecodeError"}

\* C7: every decode failure (bytes that are not text, or text that is not
\* JSON) yields a dead-letter record of kind DecodeError, and the kind of
\* every dead-letter record is DecodeError, ValidationError or ProcessingError.
C7_DecodeErrorKind ==
    \A i \in 1..Len(dlq_topic) :
        LET r == dlq_topic[i]
            m == hist[r.offset].msg
        IN  /\ m.wire \in {"nonutf8", "notjson"} => r.error_type \in DecodeErrorKinds
            /\ r.error_type \in DecodeErrorKinds \cup {"ValidationError", "ProcessingError"}

\* the acceptance condition of the Transaction schema as documented
DocumentedValid(m) ==
    /\ m.wire = "object"
    /\ TxnKeys \subseteq m.keys
    /\ IsUUID(m.data.transaction_id)
    /\ Len(m.data.card_id) >= 1
    /\ Len(m.data.card_id) <= 50
    /\ m.data.amount >= 0
    /\ m.data.amount <= MaxAmount

\* C8: an object is accepted as a Transaction only if transaction_id is a
\* UUID, card_id is non-empty and at most 50 characters and
\* 0 <= amount <= 1,000,000 (amount 0 is accepted); an object violating any of
\* these never reaches the detector.
C8_Acceptance ==
    \A k \in Delivered :
        /\ hist[k].detector_calls > 0 => DocumentedValid(hist[k].msg)
        /\ (hist[k].done /\ DocumentedValid(hist[k].msg) /\ hist[k].msg.data.amount = 0
              /\ Len(Strip(hist[k].msg.data.card_id)) > 0)
                => hist[k].detector_calls = 1

SubmissionsOf(k) == Len(SelectSeq(submitted, LAMBDA e : e.offset = k))

\* C10: poison-message isolation -- a message that fails (decoding,
\* validation, processing, alert publish, DLQ publish) is handled once: it is
\* never submitted to the detector a second time, its failure never takes the
\* consumer loop into the close/wait/rebuild path, and the next message is
\* read once it has been handled.
C10_PoisonIsolation ==
    /\ \A k \in Delivered :
          /\ SubmissionsOf(k) <= 1
          /\ hist[k].detector_calls = SubmissionsOf(k)
          /\ hist[k].dlq_attempts <= 1
          /\ k < offset => hist[k].done
    /\ pc \in {"sleep", "stop", "create"} => (offset = 0 \/ hist[offset].done)
    /\ (pc = "iter" /\ offset > 0) => hist[offset].done

\* C10 witness: the dead-letter publish of the first message failed, the
\* message is done and the second message has been read from the same consumer.
C10_Witness ==
    /\ offset = 2
    /\ hist[1].done
    /\ hist[1].dlq_attempts = 1
    /\ hist[1].dlq_records = 0
    /\ pc = "process"
    /\ kafka_consumer = "started"

\* C11: reconnect forever -- whenever the consumer raises an error (while being
\* started, while reading, or while being closed) the consume loop goes on to
\* build a new consumer; no sequence of consumer errors makes the consume loop
\* terminate, only cancellation ends it.
C11_ReconnectForever == pc = "ended" => lifespan # "running"

(***************************************************************************)
(* Properties of the subscriber hub (checked under SpecHub).               *)
(***************************************************************************)
\* C12: broadcast isolation -- once the broadcast of an alert has finished, a
\* subscriber whose send raised is no longer in the roster, every other
\* subscriber of the roster (one whose connection is open) was sent that
\* alert, and no later alert is sent to a removed subscriber.
C12_BroadcastIsolation ==
    \A k \in 1..Len(hub) :
        hub[k].finished =>
            /\ hub[k].failed \cap Roster = {}
            /\ \A w \in hub[k].roster0 : ws_state[w] = "open" => w \in hub[k].sent
            /\ ~hub[k].late

\* C13: one slow subscriber does not stall the engine -- while the send to
\* one subscriber does not complete, the consumer task can still take a step.
C13_SlowSubscriber == bcast.waiting # "" => ENABLED HubEngine

(***************************************************************************)
(* Further properties of the stream engine (checked under Spec).           *)
(***************************************************************************)
\* C14: alert fan-out -- for every alert the detector returns, the engine
\* attempts each of its outputs (the publish on fraud_alerts when it has a
\* producer, the broadcast to the subscribers, the hand-off to the sink where
\* there is one), and a failed attempt does not make it skip another.
C14_AlertFanOut ==
    \A k \in Delivered :
        (hist[k].done /\ hist[k].alert) =>
            /\ kafka_producer = "up" => hist[k].publish_attempts = 1
            /\ hist[k].broadcasts = 1
            /\ variant = "services" => hist[k].sink_attempts = 1

(***************************************************************************)
(* Properties of the janitor (checked under SpecJan).                      *)
(***************************************************************************)
\* the cards whose most recent window entry is older than t - 5 minutes
StaleAt(windows, t) ==
    {c \in DOMAIN windows : windows[c] # <<>> /\ Latest(windows[c]) < t - StaleSeconds}

\* C15: janitor correctness -- on every janitor tick each card whose most
\* recent entry is older than now - 5 minutes is removed from the velocity
\* store and no other card is removed; the next observation of a card that is
\* not in the store returns count = 1.
C15_JanitorCorrectness ==
    [][ /\ now' # now =>
              DOMAIN velocity_windows' = DOMAIN velocity_windows \ StaleAt(velocity_windows, now')
        /\ (last'.calls # last.calls /\ ~last'.raised
              /\ last'.transaction.card_id \notin DOMAIN velocity_windows) =>
              last'.velocity_count = 1
      ]_vars

(***************************************************************************)
(* Properties of the scorer (checked under SpecScore).                     *)
(***************************************************************************)
RulePath == scoring.called /\ (scoring.mdl = "none" \/ scoring.outcome.kind = "raise")

\* the accumulation as the claim states it: 0.3 above 3 and 0.5 more above 5
ScoreAsStated(f) ==
    Min(1000,
        BaseScore
        + (IF f.velocity_count > 3 THEN 300 ELSE 0)
        + (IF f.velocity_count > 5 THEN 500 ELSE 0)
        + (IF 2 <= f.hour_of_day /\ f.hour_of_day <= 5 THEN 150 ELSE 0)
        + (IF DeviationAbove2(f) THEN 200 ELSE 0)
        + (f.location_risk * 200) \div 1000
        + (IF f.amount_normalized > 500000 THEN 100 ELSE 0))

\* C16: on the rule-based path the score of every feature vector is
\* min(1.0, 0.1 + 0.3 [velocity_count > 3] + 0.5 more [velocity_count > 5]
\* + 0.15 [2 <= hour <= 5] + 0.2 [amount_deviation > 2] + 0.2 * location_risk
\* + 0.1 [amount_normalized > 0.5]); above 5 both velocity increments apply.
C16_RuleBasedScore == RulePath => scoring.score = ScoreAsStated(scoring.features)

C18_StrictEviction ==
    [][ (last'.calls # last.calls /\ ~last'.raised) =>
            LET ts == last'.transaction.timestamp
                c == last'.transaction.card_id
                W == settings.velocity_window_seconds
                kept == SelectSeq(WindowOf(velocity_windows, c),
                                  LAMBDA e : ~(e.ts.t < ts.t - W))
            IN  /\ velocity_windows'[c] =
                      Append(kept, [ts |-> ts, amount |-> last'.transaction.amount])
                /\ last'.velocity_count = Len(kept) + 1
      ]_vars

\* C18 witness: the observe step has returned with an earlier entry exactly
\* W seconds before its timestamp still in the window and counted.
C18_Witness ==
    /\ Returned
    /\ Len(LastWindow) >= 2
    /\ LastWindow[1].ts.t = last.transaction.timestamp.t - settings.velocity_window_seconds
    /\ last.velocity_count = Len(LastWindow)

(***************************************************************************)
(* The dead-letter record's copy of the message (checked under Spec).      *)
(***************************************************************************)
\* C19: every dead-letter record carries the original raw message truncated
\* to 1000: for all three error kinds the stored original message is the
\* prefix of the consumed message of length min(length, 1000), together with
\* the partition and the offset of that message.
C19_RawMessagePreserved ==
    variant = "consumer" =>
        \A i \in 1..Len(dlq_topic) :
            LET r == dlq_topic[i] IN
            /\ r.offset \in Delivered
            /\ r.partition = 0
            /\ r.error_type \in {"JSONDecodeError", "ValidationError", "ProcessingError"}
            /\ r.original_message =
                  [repr |-> FALSE, len |-> Min(hist[r.offset].msg.size, 1000)]

(***************************************************************************)
(* Shutdown (checked under SpecLife).                                      *)
(***************************************************************************)
\* C20: shutdown terminates the background tasks -- shutdown completes only
\* after the consumer task and the janitor task have both ended, whatever
\* they were doing when it began.
C20_ShutdownTerminates ==
    lifespan = "complete" => (pc = "ended" /\ janitor # "sleep")

EntriesOf(calls, card_id) ==
    LET of_card == SelectSeq(calls, LAMBDA e : e.transaction.card_id = card_id)
    IN  [i \in 1..Len(of_card) |->
            [ts |-> of_card[i].transaction.timestamp,
             amount |-> of_card[i].transaction.amount]]

RECURSIVE IsSubseq(_, _)
IsSubseq(a, b) ==
    IF a = <<>> THEN TRUE
    ELSE IF b = <<>> THEN FALSE
    ELSE IF Head(a) = Head(b) THEN IsSubseq(Tail(a), Tail(b))
    ELSE IsSubseq(a, Tail(b))

\* C22: per-card ordering with late arrivals -- a card's window holds its
\* entries in the order in which the card's transactions were processed; a
\* late transaction is appended at the end, leaves the order of the existing
\* entries as it was and removes no entry except those older than its own
\* timestamp minus W.
C22_LateArrivalOrder ==
    [][ (last'.calls # last.calls /\ ~last'.raised) =>
            LET ts == last'.transaction.timestamp
                c == last'.transaction.card_id
                W == settings.velocity_window_seconds
                old == WindowOf(velocity_windows, c)
                new == velocity_windows'[c]
                front == SubSeq(new, 1, Len(new) - 1)
            IN  /\ Len(new) >= 1
                /\ new[Len(new)] = [ts |-> ts, amount |-> last'.transaction.amount]
                /\ IsSubseq(front, old)
                /\ \A i \in 1..Len(old) :
                      old[i].ts.t >= ts.t - W => \E j \in 1..Len(front) : front[j] = old[i]
                /\ Len(front) = Cardinality({i \in 1..Len(old) : old[i].ts.t >= ts.t - W})
                /\ IsSubseq(new, EntriesOf(submitted', c))
      ]_vars

\* C22 witness: a late transaction has been processed: it stands at the end
\* of the window, behind a retained entry with a later timestamp.
C22_Witness ==
    /\ Returned
    /\ Len(LastWindow) >= 2
    /\ LastWindow[Len(LastWindow)].ts = last.transaction.timestamp
    /\ \E i \in 1..(Len(LastWindow) - 1) :
          LastWindow[i].ts.t > last.transaction.timestamp.t

(***************************************************************************)
(* One message at a time (checked under Spec).                             *)
(***************************************************************************)
\* C23: serial processing -- the consumer loop has at most one message in
\* flight: the processing of message n+1 starts only after all processing of
\* message n has finished, so messages are handled in offset order.
C23_SerialProcessing ==
    [][ /\ Len(hist') > Len(hist) =>
              /\ Len(hist') = Len(hist) + 1
              /\ offset' = Len(hist')
              /\ \A k \in 1..Len(hist) : hist[k].done
        /\ \A k \in 1..Len(hist) :
              hist'[k] # hist[k] => (k = Len(hist) /\ k = offset /\ ~hist[k].done)
        /\ (dlq_topic' # dlq_topic \/ alerts_topic' # alerts_topic
               \/ submitted' # submitted) =>
              (offset' = offset /\ offset >= 1 /\ ~hist[offset].done)
        /\ \A i \in 1..Len(submitted') : \A j \in i..Len(submitted') :
              submitted'[i].offset <= submitted'[j].offset
      ]_vars

\* C23 witness: the second message is in flight and everything about the
\* first one (its transaction scored, or its dead-letter record made) is over.
C23_Witness ==
    /\ offset = 2
    /\ hist[1].done
    /\ hist[1].detector_calls + hist[1].dlq_attempts >= 1
    /\ ~hist[2].done
    /\ pc \notin {"iter", "process"}

(***************************************************************************)
(* The welcome frame (checked under SpecHub).                              *)
(***************************************************************************)
\* C24: welcome first -- every alert subscriber is sent the welcome frame
\* before any alert frame: no broadcast delivers an alert to a subscriber
\* that is on the roster and has not yet been sent its welcome frame.
C24_WelcomeFirst == \A k \in 1..Len(hub) : hub[k].sent \subseteq welcomed

(***************************************************************************)
(* Health (checked under Spec).                                            *)
(***************************************************************************)
\* the bus is connected: the loop's consumer is started and the producer is up
BusConnected == kafka_consumer = "started" /\ kafka_producer = "up"

\* C25: health status -- /health reports unhealthy exactly when neither a
\* model nor the fallback is available, degraded exactly when the bus is not
\* currently connected (the interval after a consumer error, with the
\* consumer closed and the loop waiting to rebuild it, included), and
\* healthy otherwise (stated for consumer/main.py; the other service's
\* endpoint answers "healthy" in every state).
C25_HealthStatus ==
    variant = "consumer" =>
        health_check.status =
            (IF ~model_loaded THEN "unhealthy"
             ELSE IF ~BusConnected THEN "degraded" ELSE "healthy")

(***************************************************************************)
(* Janitor and detector on the velocity store (checked under SpecLock).    *)
(***************************************************************************)
\* C26: the janitor and the detector are mutually exclusive on the velocity
\* store -- cleanup_old_windows and the critical section of
\* process_transaction never interleave, so a card's window is never
\* removed between the observe step of a transaction and the computation of
\* that transaction's features and alert.
C26_MutualExclusion ==
    [][ /\ now' # now => (lock.holder = "free" /\ lock' = lock)
        /\ (lock.holder = "detector" /\ velocity_windows' # velocity_windows) =>
              lock.at = "observe"
        /\ (lock'.holder = "detector" /\ lock'.at \in {"features", "predict"}) =>
              LET c == lock'.transaction.card_id IN
              /\ c \in DOMAIN velocity_windows'
              /\ velocity_windows'[c] # <<>>
              /\ velocity_windows'[c][Len(velocity_windows'[c])] =
                    [ts |-> lock'.transaction.timestamp,
                     amount |-> lock'.transaction.amount]
              /\ Len(velocity_windows'[c]) = lock'.v.count
      ]_vars

\* C26 witness: the detector is between its observe step and its features,
\* the janitor's round is due and the observed card is stale for it.
C26_Witness ==
    /\ lock.holder = "detector"
    /\ lock.at = "features"
    /\ janitor = "sleep"
    /\ now < T0 + JanitorPeriod * MaxTicks
    /\ lock.transaction.card_id \in StaleAt(velocity_windows, now + JanitorPeriod)

(***************************************************************************)
(* The amount_deviation feature (checked under SpecDet).                   *)
(***************************************************************************)
RECURSIVE GCD(_, _)
GCD(a, b) == IF b = 0 THEN a ELSE GCD(b, a % b)

Reduced(f) == [num |-> f.num \div GCD(f.num, f.den), den |-> f.den \div GCD(f.num, f.den)]

SameFraction(a, b) == Reduced(a) = Reduced(b)

\* amount_deviation as the claim states it: from the mean of the entries the
\* window held before the current transaction was inserted
DeviationAsStated(prior, amount) ==
    IF prior = <<>> \/ get_mean_amount(prior).num <= 0
    THEN [num |-> 0, den |-> 1]
    ELSE Deviation(amount, get_mean_amount(prior))

\* C27: the amount_deviation feature of a transaction is computed from the
\* mean of the card's window as it was before the current transaction was
\* inserted; with no earlier entries, or a prior mean <= 0, it is 0.
C27_PriorMeanDeviation ==
    [][ (last'.calls # last.calls /\ ~last'.raised) =>
            LET t == last'.transaction
                prior == cleanup(WindowOf(velocity_windows, t.card_id),
                                 settings.velocity_window_seconds, t.timestamp)
            IN  SameFraction(last'.features.amount_deviation,
                             DeviationAsStated(prior, t.amount))
      ]_vars

(***************************************************************************)
(* fraud_reason (checked under SpecScore).                                 *)
(***************************************************************************)
Texts(reason) == [i \in 1..Len(reason) |-> reason[i].text]

\* the texts of the applicable clauses, in the stated order
ApplicableTexts ==
    (IF scoring.triggered THEN <<"Velocity violation: {} txns in 60s">> ELSE <<>>)
    \o (IF DeviationAbove2(scoring.features)
        THEN <<"Unusual amount (deviation: {:.1f}x)">> ELSE <<>>)
    \o (IF scoring.features.location_risk > 500
        THEN <<"High-risk location detected">> ELSE <<>>)
    \o (IF 2 <= scoring.features.hour_of_day /\ scoring.features.hour_of_day <= 5
        THEN <<"Suspicious transaction time">> ELSE <<>>)

\* C28: fraud_reason is the applicable clauses joined in the fixed order
\* velocity violation (iff velocity_triggered, with the velocity count),
\* unusual amount (iff amount_deviation > 2), high-risk location (iff
\* location_risk > 0.5), suspicious time (iff 2 <= hour <= 5); if none
\* applies it is the ML high-confidence clause when score >= 0.8 and
\* otherwise "Multiple risk factors detected".  So it is never empty and the
\* reason of a velocity-triggered alert begins with the velocity clause.
C28_FraudReason ==
    scoring.called =>
        /\ Len(scoring.reason) >= 1
        /\ Texts(scoring.reason) =
              (IF ApplicableTexts # <<>> THEN ApplicableTexts
               ELSE IF scoring.score >= 800
               THEN <<"ML model high confidence fraud prediction">>
               ELSE <<"Multiple risk factors detected">>)
        /\ scoring.triggered =>
              /\ scoring.reason[1].text = "Velocity violation: {} txns in 60s"
              /\ scoring.reason[1].arg =
                    [num |-> scoring.features.velocity_count, den |-> 1]
        /\ \A i \in 1..Len(scoring.reason) :
              scoring.reason[i].text = "Unusual amount (deviation: {:.1f}x)" =>
                  scoring.reason[i].arg = scoring.features.amount_deviation

\* C28 witness: an alert that is velocity-triggered and to which the three
\* other clauses apply too: its reason is the four clauses, velocity first.
C28_Witness ==
    /\ scoring.called
    /\ should_alert(scoring.score, scoring.triggered, settings)
    /\ scoring.triggered
    /\ Len(scoring.reason) = 4
    /\ scoring.reason[1].text = "Velocity violation: {} txns in 60s"
    /\ scoring.reason[4].text = "Suspicious transaction time"


(***************************************************************************)
(* The time-anomaly scenario (checked under SpecNight).                    *)
(***************************************************************************)
\* the call just returned was for a card's first transaction: amount 30.00,
\* 03:15 UTC, grocery, "Austin, TX"
TimeAnomalyOnly ==
    /\ last.calls > 0
    /\ ~last.raised
    /\ last.transaction \in { Txn(c, T3, TRUE, 3000, Austin) : c \in {Card1, Card2} }
    /\ last.velocity_count = 1

\* C29: under the defaults and the fallback scorer, a card's single first
\* transaction at 03:15 UTC with amount 30, merchant grocery and location
\* "Austin, TX" is scored 0.1 + 0.15 = 0.25 and produces no alert.
C29_TimeAnomalyScore ==
    TimeAnomalyOnly => (last.fraud_score = 250 /\ last.alert = None)

(***************************************************************************)
(* Redelivery (checked under SpecDet).                                     *)
(***************************************************************************)
\* C30: after any sequence of processed messages, the same transaction
\* delivered more than once included, no (timestamp, amount) entry occurs
\* twice in a card's velocity window.
C30_NoDuplicateEntries ==
    \A c \in DOMAIN velocity_windows :
        \A i, j \in 1..Len(velocity_windows[c]) :
            i # j => velocity_windows[c][i] # velocity_windows[c][j]

(***************************************************************************)
(* Failure after the observe step (checked under SpecFault).               *)
(***************************************************************************)
\* the step ends a call of process_transaction that raised after
\* _check_velocity had returned
FailsAfterObserve ==
    /\ lock.holder = "detector"
    /\ lock.at \in {"features", "predict"}
    /\ last'.calls = last.calls + 1
    /\ last'.raised

\* C31: when process_transaction fails after its observe step, the entry
\* inserted for the transaction stays in the card's window,
\* transactions_processed and alerts_generated are not incremented for it,
\* and the detector's lock is released.
C31_NoRollback ==
    [][ FailsAfterObserve =>
            LET t == lock.transaction
                w == WindowOf(velocity_windows', t.card_id)
            IN  /\ w # <<>>
                /\ w[Len(w)] = [ts |-> t.timestamp, amount |-> t.amount]
                /\ transactions_processed' = transactions_processed
                /\ alerts_generated' = alerts_generated
                /\ lock_free(lock')
      ]_vars

(***************************************************************************)
(* The lock and the alert path (checked under Spec).                       *)
(***************************************************************************)
\* process_message stands at one of its awaits after process_transaction: a
\* bus publish (DLQ, alert), the subscriber sends or a persistence call
IOPending ==
    pc \in {"dlq", "publish", "broadcast", "svc_save_txn", "svc_save_alert",
            "svc_broadcast", "svc_publish"}

\* C32: at every bus publish (alert or DLQ), subscriber send and persistence
\* call the detector's lock is free, so the janitor's cleanup_old_windows can
\* take it while the publish, broadcast or write is pending.
C32_LockFreeDuringIO == IOPending => lock_free(lock)

\* an alert computed under the lock is about to be published
C32_Witness ==
    /\ pc \in {"publish", "svc_save_alert"}
    /\ cur.alert # None
    /\ last.calls > 0
    /\ lock_free(lock)

(***************************************************************************)
(* Shutdown and the message in flight (checked under SpecLife).            *)
(***************************************************************************)
\* C33: shutdown drains in-flight work -- when the consumer task has
\* terminated, every message it had begun to process has run to completion:
\* its DLQ publish, or its alert publish and broadcast, has been carried out
\* and no computed alert is left unpublished.
C33_ShutdownDrains ==
    pc = "ended" => \A k \in 1..Len(hist) : hist[k].done

(***************************************************************************)
(* The broker consumer's stop() (checked under SpecLife).                  *)
(***************************************************************************)
\* stop() has been called on the loop's consumer object, or there is none yet
StopCalled(consumer) ==
    consumer \in {"none", "stopped", "stop_failed", "stop_cancelled"}

LatencySamplesList ==
    IF variant = "consumer" THEN metrics.latencies ELSE svc.processing_times

\* C35: the list of latency samples holds at most 1000 entries (cut to its
\* 500 most recent when an append makes it exceed 1000) and exactly one
\* sample is appended per alert: until the first cut it holds as many samples
\* as alerts were emitted.
C35_LatencyRing ==
    /\ Len(LatencySamplesList) <= LatencyCap
    /\ alerts_generated <= LatencyCap => Len(LatencySamplesList) = alerts_generated

\* what one call of the sink added to the two tables
AlertInserted == Len(svc'.db.fraud_alerts) = Len(svc.db.fraud_alerts) + 1
CaseInserted == Len(svc'.db.cases) = Len(svc.db.cases) + 1
\* C36 as stated: a call of save_fraud_alert_to_db inserts a case row if and
\* only if it inserted the alert's row and the alert is HIGH or CRITICAL
C36_AsClaimed ==
    [][pc = "svc_save_alert" =>
         (CaseInserted <=>
            (AlertInserted /\ cur.alert.risk_level \in {"HIGH", "CRITICAL"}))]_vars
\* C36: a call of save_fraud_alert_to_db issues the case's INSERT exactly when
\* it inserted the alert's row and the alert is HIGH or CRITICAL, so a case row
\* appears exactly then unless the call logged a failure; the case carries the
\* id of that alert's row and priority critical for CRITICAL, high for HIGH;
\* and no failure reaches process_message (no DLQ count, the broadcast follows)
C36_CaseAutoCreation ==
    [][pc = "svc_save_alert" =>
         LET db == svc'.db
             a == cur.alert
         IN  /\ Len(db.cases) \in {Len(svc.db.cases), Len(svc.db.cases) + 1}
             /\ Len(db.fraud_alerts) \in
                    {Len(svc.db.fraud_alerts), Len(svc.db.fraud_alerts) + 1}
             /\ CaseInserted =>
                    /\ AlertInserted
                    /\ a.risk_level \in {"HIGH", "CRITICAL"}
                    /\ db.cases[Len(db.cases)].alert_id =
                           db.fraud_alerts[Len(db.fraud_alerts)].id
                    /\ db.fraud_alerts[Len(db.fraud_alerts)].alert = a
                    /\ db.cases[Len(db.cases)].priority =
                           (IF a.risk_level = "CRITICAL" THEN "critical" ELSE "high")
             /\ (AlertInserted /\ a.risk_level \in {"HIGH", "CRITICAL"}
                    /\ db.errors = svc.db.errors) => CaseInserted
             /\ svc'.dlq_messages = svc.dlq_messages
             /\ pc' = "svc_broadcast"]_vars
\* two alerts were saved, the second one HIGH or CRITICAL with its case, and a
\* failure was logged on the way
C36_Witness ==
    /\ pc = "svc_broadcast"
    /\ Len(svc.db.fraud_alerts) = 2
    /\ Len(svc.db.cases) = 1
    /\ svc.db.cases[1].alert_id = 2
    /\ svc.db.errors = 0
\* a failed insert was swallowed
C36_WitnessSwallowed ==
    /\ pc = "svc_broadcast"
    /\ svc.db.errors > 0

\* C37: a call of process_transaction that returns adds one to
\* transactions_processed, one to alerts_generated when it returns an alert and
\* one to velocity_violations when that alert is velocity-triggered; a call
\* that raises (its message goes to the DLQ) adds nothing; and in every state
\* velocity_violations <= alerts_generated <= transactions_processed, for the
\* detector's counters and for those of services/consumer
CountersOrdered ==
    /\ velocity_violations <= alerts_generated
    /\ alerts_generated <= transactions_processed
    /\ svc.velocity_violations <= svc.alerts_generated
    /\ svc.alerts_generated <= svc.transactions_processed
CountedAsReturned ==
    last'.calls = last.calls + 1 =>
        /\ transactions_processed' =
              transactions_processed + (IF last'.raised THEN 0 ELSE 1)
        /\ alerts_generated' =
              alerts_generated + (IF ~last'.raised /\ last'.alert # None THEN 1 ELSE 0)
        /\ velocity_violations' =
              velocity_violations +
                 (IF ~last'.raised /\ last'.alert # None /\ last'.velocity_triggered
                  THEN 1 ELSE 0)
C37_CounterConsistency == [](CountersOrdered) /\ [][CountedAsReturned]_vars

\* C38: in services/consumer no broadcast_alert ends with an exception of its
\* removal loop, whatever the connection handlers removed meanwhile: no
\* broadcast makes process_message skip the publish of the alert, and no
\* message is counted as a DLQ message because of a broadcast
C38_RemovalNeverRaises ==
    variant = "services" =>
        /\ svc.dlq_messages = 0
        /\ \A k \in 1..Len(hub) : ~hub[k].publish_skipped

\* C39: while process_message handles a message that fails decoding or
\* validation, from the read to the end of its DLQ handling, no velocity
\* window changes and transactions_processed, alerts_generated,
\* velocity_violations and the latency samples stay as they were (the
\* detector's, and the counters services/consumer keeps itself)
Malformed == pc \in {"process", "dlq"} /\ cur.msg # None /\ ~Valid(cur.msg)
C39_MalformedNoEffect ==
    [][Malformed =>
         /\ UNCHANGED <<velocity_windows, transactions_processed, alerts_generated,
                        velocity_violations>>
         /\ metrics'.latencies = metrics.latencies
         /\ svc'.transactions_processed = svc.transactions_processed
         /\ svc'.alerts_generated = svc.alerts_generated
         /\ svc'.velocity_violations = svc.velocity_violations
         /\ svc'.processing_times = svc.processing_times]_vars
\* a malformed message was handled to the end after a transaction had been
\* scored and had left an entry in a window
C39_Witness ==
    /\ transactions_processed > 0
    /\ velocity_windows # <<>>
    /\ \E k \in 1..Len(hist) : hist[k].done /\ ~Valid(hist[k].msg)
\* the same in services/consumer, whose own counter had counted a transaction
C39_WitnessServices ==
    /\ variant = "services"
    /\ svc.transactions_processed > 0
    /\ svc.dlq_messages > 0
    /\ \E k \in 1..Len(hist) : hist[k].done /\ ~Valid(hist[k].msg)

\* C40: while a broadcast is iterating the roster (a send is still to be
\* made) no step changes the roster: no subscriber is added, none is discarded
\* by its handler, and the failed ones are not yet removed
Iterating ==
    IF variant = "consumer"
    THEN pc = "sending" /\ bcast.todo # {}
    ELSE /\ pc = "svc_sending"
         /\ hub[Len(hub)].roster0 # {}
         /\ bcast.i < Len(websocket_clients)
C40_RosterExclusive ==
    [][Iterating => UNCHANGED <<active_connections, websocket_clients>>]_vars

====
